---- MODULE Spec2Model ----
(***************************************************************************)
(* Model of roon-tui: the terminal UI state (src/src/app) and the Roon      *)
(* handler (src/src/io/roon.rs) that merges server pushes and user intents. *)
(***************************************************************************)
EXTENDS Integers, Sequences, FiniteSets, TLC

(***************************************************************************)
(* Bounds of the model.                                                    *)
(***************************************************************************)
\* longest queue the server snapshot or a diff batch may produce
MaxQueueLen == 3

\* the diffs of one batch, and the items of one Insert
BatchLens == {1, 2}
InsertLens == {1, 2}

(***************************************************************************)
(* Rust's Option<T>: None is the empty sequence, Some(x) a singleton.      *)
(***************************************************************************)
None == <<>>
Some(x) == <<x>>
IsSome(o) == o # <<>>
IsNone(o) == o = <<>>
Unwrap(o) == o[1]

Min(a, b) == IF a < b THEN a ELSE b

\* sequences over S of a length in lens
SeqsOf(S, lens) == UNION {[1..n -> S] : n \in lens}

\* Iterator::position, 0-based: the least index whose element satisfies P
Position(s, P(_)) ==
    IF \E i \in 1..Len(s) : P(s[i])
    THEN Some((CHOOSE i \in 1..Len(s) : P(s[i]) /\ \A j \in 1..(i-1) : ~P(s[j])) - 1)
    ELSE None

\* slice::last().cloned()
Last(s) == IF Len(s) = 0 THEN None ELSE Some(s[Len(s)])

(***************************************************************************)
(* Queue items (roon_api::transport::QueueItem): the id, the length and the *)
(* primary display line.  A display line occurs twice in a queue when an   *)
(* item is inserted again.                                                  *)
(***************************************************************************)
QueueItems ==
    { [queue_item_id |-> 1, length |-> 10, line1 |-> "A"],
      [queue_item_id |-> 2, length |-> 20, line1 |-> "B"],
      [queue_item_id |-> 3, length |-> 30, line1 |-> "C"] }

\* the indices a diff may name
ChangeIndices == 0..(MaxQueueLen - 1)

\* the items of one Insert: their ids ascend, as the server numbers new items
InsertLists ==
    {its \in SeqsOf(QueueItems, InsertLens) :
        \A i \in 1..(Len(its) - 1) : its[i].queue_item_id < its[i + 1].queue_item_id}

\* roon_api::transport::QueueChange: operation, index, items, count
InsertChanges ==
    { [operation |-> "Insert", index |-> i, items |-> Some(its), count |-> None] :
        i \in ChangeIndices, its \in InsertLists }
RemoveChanges ==
    { [operation |-> "Remove", index |-> i, items |-> None, count |-> Some(c)] :
        i \in ChangeIndices, c \in 1..2 }
\* an Insert without items and a Remove without count
PartialChanges ==
    { [operation |-> "Insert", index |-> 0, items |-> None, count |-> None],
      [operation |-> "Remove", index |-> 0, items |-> None, count |-> None] }
QueueChanges == InsertChanges \cup RemoveChanges \cup PartialChanges

VARIABLES
    app,        \* App (src/src/app/mod.rs)
    handler,    \* RoonHandler (src/src/io/roon.rs)
    to_app,     \* channel handler -> UI (from_roon at the UI end)
    to_roon,    \* channel UI -> handler (from_app at the handler end)
    core_rx,    \* channel server -> handler
    sent,       \* requests the handler issued to the server in its last step
    disk,       \* the settings in the configuration file
    panicked,   \* the tasks that have panicked
    server,     \* whether the server is paired with the extension
    flow,       \* the items sent to the handler and the items it handled, in order
    hlog,       \* the item the handler handled last and what held before it
    qlog,       \* what the last queue event of the UI was handed
    script_log, \* per session key: the run of the script started last
    sup,        \* the supervisor loop of start and the tasks of the connection
    hold        \* per task: the events it has still to send for the item it took

vars == <<app, handler, to_app, to_roon, core_rx, sent, disk, panicked, server, flow,
          hlog, qlog, script_log, sup, hold>>

(***************************************************************************)
(* Vec<T>::insert and Vec<T>::remove with 0-based indices.  Both panic on   *)
(* an index out of range, which the callers below test before the call.    *)
(***************************************************************************)
VecInsert(v, i, x) == SubSeq(v, 1, i) \o <<x>> \o SubSeq(v, i + 1, Len(v))
VecRemove(v, i) == SubSeq(v, 1, i) \o SubSeq(v, i + 2, Len(v))

(***************************************************************************)
(* StatefulList (src/src/app/stateful_list.rs): the selection of a list.   *)
(***************************************************************************)
\* a faulty variant: it selects the second row, not the first, when handed None
StatefulList_select_second(index) == IF IsSome(index) THEN index ELSE Some(1)

StatefulList_select(index) == IF IsSome(index) THEN index ELSE Some(0)

StatefulList_next(items, selected) ==
    IF IsSome(items) /\ IsSome(selected)
    THEN LET i == Unwrap(selected) IN
         IF Len(Unwrap(items)) > i + 1 THEN Some(i + 1) ELSE Some(i)
    ELSE selected

StatefulList_prev(items, selected) ==
    IF IsSome(items) /\ IsSome(selected)
    THEN LET i == Unwrap(selected) IN IF i > 0 THEN Some(i - 1) ELSE Some(0)
    ELSE selected

StatefulList_get_selected_item(items, selected) ==
    IF IsNone(selected) \/ IsNone(items) THEN None
    ELSE IF Unwrap(selected) < Len(Unwrap(items))
         THEN Some(Unwrap(items)[Unwrap(selected) + 1])
         ELSE None

(***************************************************************************)
(* The queue materializer of the UI (src/src/app/mod.rs).                  *)
(***************************************************************************)
get_queue_select_string(a) ==
    LET item == StatefulList_get_selected_item(a.queue_items, a.queue_selected)
    IN  IF IsSome(item) THEN Some(Unwrap(item).line1) ELSE None

\* a faulty variant: it inserts every item at the index of the diff
RECURSIVE InsertItemsAtIndex(_, _, _, _)
InsertItemsAtIndex(queue, index, items, i) ==
    IF i >= Len(items) THEN [queue |-> queue, status |-> "ok"]
    ELSE IF index > Len(queue) THEN [queue |-> queue, status |-> "panic"]
    ELSE InsertItemsAtIndex(VecInsert(queue, index, items[i + 1]), index, items, i + 1)

\* the Insert loop: "ok" when every item went in, "panic" when Vec::insert
\* was handed an index beyond the length
RECURSIVE InsertItems(_, _, _, _)
InsertItems(queue, index, items, i) ==
    IF i >= Len(items) THEN [queue |-> queue, status |-> "ok"]
    ELSE IF index + i > Len(queue) THEN [queue |-> queue, status |-> "panic"]
    ELSE InsertItems(VecInsert(queue, index + i, items[i + 1]), index, items, i + 1)

\* a faulty variant: it removes one item whatever the count is
RemoveItemsOnce(queue, index, count) ==
    IF count = 0 THEN [queue |-> queue, status |-> "ok"]
    ELSE IF index >= Len(queue) THEN [queue |-> queue, status |-> "panic"]
    ELSE [queue |-> VecRemove(queue, index), status |-> "ok"]

\* the Remove loop: count times Vec::remove(index)
RECURSIVE RemoveItems(_, _, _)
RemoveItems(queue, index, count) ==
    IF count = 0 THEN [queue |-> queue, status |-> "ok"]
    ELSE IF index >= Len(queue) THEN [queue |-> queue, status |-> "panic"]
    ELSE RemoveItems(VecRemove(queue, index), index, count - 1)

\* one diff; "abort" is the early return of the ? operator
ApplyChange(queue, change) ==
    IF change.operation = "Insert"
    THEN IF IsNone(change.items) THEN [queue |-> queue, status |-> "abort"]
         ELSE InsertItems(queue, change.index, Unwrap(change.items), 0)
    ELSE IF IsNone(change.count) THEN [queue |-> queue, status |-> "abort"]
         ELSE RemoveItems(queue, change.index, Unwrap(change.count))

\* the loop over the batch, from its k-th diff on
RECURSIVE ApplyChanges(_, _, _)
ApplyChanges(queue, changes, k) ==
    IF k > Len(changes) THEN [queue |-> queue, status |-> "ok"]
    ELSE LET r == ApplyChange(queue, changes[k]) IN
         IF r.status = "ok" THEN ApplyChanges(r.queue, changes, k + 1) ELSE r

\* a faulty variant: it takes the last item with the display line instead of the first
queue_reselect_last(queue, selected) ==
    IF \E i \in 1..Len(queue) : queue[i].line1 = selected
    THEN Some((CHOOSE i \in 1..Len(queue) : queue[i].line1 = selected
                  /\ \A j \in (i+1)..Len(queue) : queue[j].line1 # selected) - 1)
    ELSE None

\* the index handed to StatefulList::select after the batch
queue_reselect(queue, selected) ==
    LET Matches(item) == item.line1 = selected IN Position(queue, Matches)

\* App::apply_queue_changes: the new queue, its selection, and how it ended
apply_queue_changes(a, changes, selected) ==
    IF IsNone(a.queue_items)
    THEN [app |-> a, status |-> "abort"]
    ELSE LET r == ApplyChanges(Unwrap(a.queue_items), changes, 1)
             a1 == [a EXCEPT !.queue_items = Some(r.queue)]
         IN  IF r.status # "ok" THEN [app |-> a1, status |-> r.status]
             ELSE IF IsSome(selected)
             THEN [app |-> [a1 EXCEPT !.queue_selected =
                              StatefulList_select(
                                  queue_reselect(r.queue, Unwrap(selected)))],
                   status |-> "ok"]
             ELSE [app |-> a1, status |-> "ok"]

(***************************************************************************)
(* Messages on the channels (IoEvent, src/src/io/mod.rs): a kind and one   *)
(* argument.                                                               *)
(***************************************************************************)
Msg(kind, arg) == [kind |-> kind, arg |-> arg]

\* EndPoint
EndPoint(type, id) == [type |-> type, id |-> id]

(***************************************************************************)
(* The views of the UI (View, src/src/app/mod.rs) and their ordinals.      *)
(***************************************************************************)
ViewOrdinal(view) ==
    CASE view = "Browse" -> 0 [] view = "Queue" -> 1 [] view = "NowPlaying" -> 2
      [] view = "Prompt" -> 3 [] view = "Zones" -> 4 [] view = "Grouping" -> 5
      [] view = "GroupingPreset" -> 6 [] view = "Help" -> 7

view_order == <<"Browse", "Queue", "NowPlaying">>

\* the row of the zone list that holds the selected zone
zones_index(a) ==
    IF IsSome(a.selected_zone) /\ IsSome(a.zones_items)
    THEN LET IsZone(entry) == entry[1].type = "Zone"
                                 /\ entry[1].id = Unwrap(a.selected_zone).zone_id
         IN  Position(Unwrap(a.zones_items), IsZone)
    ELSE None

select_view(a, view) ==
    LET b == [a EXCEPT !.prev_view = a.selected_view, !.selected_view = view] IN
    CASE view = Some("Browse") ->
            [b EXCEPT !.browse_selected = StatefulList_select(None),
                      !.queue_selected = None, !.zones_selected = None,
                      !.grouping_selected = None]
      [] view = Some("Queue") ->
            [b EXCEPT !.browse_selected = None,
                      !.queue_selected = StatefulList_select(None),
                      !.zones_selected = None, !.grouping_selected = None]
      [] view = Some("Zones") ->
            [b EXCEPT !.zones_selected = StatefulList_select(zones_index(a)),
                      !.queue_selected = None, !.browse_selected = None,
                      !.grouping_selected = None]
      [] view = Some("Grouping") ->
            [b EXCEPT !.grouping_selected = StatefulList_select(None),
                      !.browse_selected = None, !.queue_selected = None,
                      !.zones_selected = None]
      [] OTHER ->
            [b EXCEPT !.browse_selected = None, !.queue_selected = None,
                      !.zones_selected = None, !.grouping_selected = None]

select_next_view(a) ==
    IF IsNone(a.selected_view) THEN a
    ELSE LET i == ViewOrdinal(Unwrap(a.selected_view)) + 1 IN
         select_view(a, Some(IF i < Len(view_order) THEN view_order[i + 1] ELSE "Browse"))

select_prev_view(a) ==
    IF IsNone(a.selected_view) THEN a
    ELSE LET o == ViewOrdinal(Unwrap(a.selected_view)) IN
         \* wrapping_sub(1) of ordinal 0 is beyond the list
         select_view(a, Some(IF o >= 1 /\ o - 1 < Len(view_order)
                             THEN view_order[o] ELSE "NowPlaying"))

restore_view(a) == select_view([a EXCEPT !.prev_view = None], a.prev_view)

get_item_key(a) ==
    LET item == StatefulList_get_selected_item(a.browse_items, a.browse_selected)
    IN  IF IsSome(item) THEN Unwrap(item).item_key ELSE None

get_queue_item_id(a) ==
    LET item == StatefulList_get_selected_item(a.queue_items, a.queue_selected)
    IN  IF IsSome(item) THEN Some(Unwrap(item).queue_item_id) ELSE None

\* the result of one UI step: the new state, the messages sent to the handler
AppStep(a, out) == [app |-> a, out |-> out, status |-> "ok"]

handle_queue_key_codes(a, key) ==
    CASE key = "Up" ->
            AppStep([a EXCEPT !.queue_selected = StatefulList_prev(a.queue_items, @)], <<>>)
      [] key = "Down" ->
            AppStep([a EXCEPT !.queue_selected = StatefulList_next(a.queue_items, @)], <<>>)
      [] key = "Home" ->
            AppStep([a EXCEPT !.queue_selected = StatefulList_select(Some(0))], <<>>)
      [] key = "Enter" ->
            IF IsSome(get_queue_item_id(a))
            THEN AppStep([a EXCEPT !.queue_selected = StatefulList_select(Some(0))],
                         <<Msg("QueueSelected", Unwrap(get_queue_item_id(a)))>>)
            ELSE AppStep(a, <<>>)
      [] OTHER -> AppStep(a, <<>>)

handle_zone_key_codes(a, key) ==
    LET item == StatefulList_get_selected_item(a.zones_items, a.zones_selected) IN
    CASE key = "Up" ->
            AppStep([a EXCEPT !.zones_selected = StatefulList_prev(a.zones_items, @)], <<>>)
      [] key = "Down" ->
            AppStep([a EXCEPT !.zones_selected = StatefulList_next(a.zones_items, @)], <<>>)
      [] key = "Home" ->
            AppStep([a EXCEPT !.zones_selected = StatefulList_select(Some(0))], <<>>)
      [] key = "Enter" ->
            AppStep(restore_view(a),
                    IF IsSome(item) THEN <<Msg("ZoneSelected", Unwrap(item)[1])>> ELSE <<>>)
      [] key = "Delete" ->
            AppStep(a, IF IsSome(item) /\ Unwrap(item)[1].type = "Preset"
                       THEN <<Msg("ZoneDeletePreset", Unwrap(item)[1].id)>> ELSE <<>>)
      [] key = "Esc" -> AppStep(restore_view(a), <<>>)
      [] OTHER -> AppStep(a, <<>>)

\* the width the terminal leaves for the text of the prompt and of the preset
\* name (set_max_input_len at each draw of the view)
MaxInputLen == 3
\* the keys that are characters, and the characters of the titles ("the "
\* removed, in lower case) that the type-ahead compares
CharKeys == {"s", "e"}
TitleChars(title) ==
    CASE title = "Search" -> <<"s", "e", "a", "r", "c", "h">>
      [] title = "Settings" -> <<"s", "e", "t", "t", "i", "n", "g", "s">>
      [] OTHER -> <<"x">>
StartsWith(chars, prefix) ==
    Len(prefix) <= Len(chars) /\ SubSeq(chars, 1, Len(prefix)) = prefix

\* App::clamp_cursor
clamp_cursor(a, new_cursor_pos) ==
    IF new_cursor_pos > Len(a.input) THEN Len(a.input) ELSE new_cursor_pos

\* App::move_cursor_left and App::move_cursor_right
move_cursor_left(a) ==
    [a EXCEPT !.cursor_position = clamp_cursor(a, IF @ = 0 THEN 0 ELSE @ - 1)]
move_cursor_right(a) == [a EXCEPT !.cursor_position = clamp_cursor(a, @ + 1)]

\* App::enter_char: String::insert panics beyond the end of the text
enter_char(a, new_char) ==
    IF Len(a.input) < MaxInputLen
    THEN IF a.cursor_position > Len(a.input)
         THEN [AppStep(a, <<>>) EXCEPT !.status = "panic"]
         ELSE AppStep(move_cursor_right(
                  [a EXCEPT !.input = SubSeq(@, 1, a.cursor_position) \o <<new_char>>
                                        \o SubSeq(@, a.cursor_position + 1, Len(@))]), <<>>)
    ELSE AppStep(a, <<>>)

\* App::delete_char: chars().take(cursor - 1) chained with chars().skip(cursor)
delete_char(a) ==
    IF a.cursor_position # 0
    THEN move_cursor_left(
             [a EXCEPT !.input =
                 SubSeq(@, 1, Min(a.cursor_position - 1, Len(@)))
                     \o SubSeq(@, a.cursor_position + 1, Len(@))])
    ELSE a

\* App::select_by_input for items whose titles start with a lower-case letter:
\* the first key takes the first item that starts with it, a further key the
\* first item from the last match on that starts with the text typed
select_by_input(a, key) ==
    IF IsNone(a.browse_items) THEN a
    ELSE LET items == Unwrap(a.browse_items)
             input == Append(a.input, key)
             skip == IF Len(a.browse_match_list) = 0 THEN 0
                     ELSE a.browse_match_list[Len(a.browse_match_list)]
             Matches(i) == i > skip /\ StartsWith(TitleChars(items[i].title), input)
         IN  IF \E i \in 1..Len(items) : Matches(i)
             THEN LET index == (CHOOSE i \in 1..Len(items) :
                                   Matches(i) /\ \A j \in 1..(i - 1) : ~Matches(j)) - 1
                  IN  [a EXCEPT !.input = input,
                                !.browse_match_list = Append(@, index),
                                !.browse_selected = StatefulList_select(Some(index))]
             ELSE a

\* Item::input_prompt
input_prompt(item) == IF "input_prompt" \in DOMAIN item THEN item.input_prompt ELSE None

\* App::handle_prompt_key_codes
handle_prompt_key_codes(a, key) ==
    CASE key = "Enter" ->
            AppStep(restore_view([a EXCEPT !.pending_item_key = None, !.input = <<>>,
                                           !.cursor_position = 0]),
                    IF IsSome(a.pending_item_key)
                    THEN <<Msg("BrowseInput", a.input),
                           Msg("BrowseSelected", a.pending_item_key)>>
                    ELSE <<>>)
      [] key \in CharKeys -> enter_char(a, key)
      [] key = "Backspace" -> AppStep(delete_char(a), <<>>)
      [] key = "Delete" -> AppStep(delete_char(move_cursor_right(a)), <<>>)
      [] key = "Left" -> AppStep(move_cursor_left(a), <<>>)
      [] key = "Right" -> AppStep(move_cursor_right(a), <<>>)
      [] key = "Home" -> AppStep([a EXCEPT !.cursor_position = 0], <<>>)
      [] key = "End" -> AppStep([a EXCEPT !.cursor_position = Len(a.input)], <<>>)
      [] key = "Esc" ->
            AppStep(restore_view([a EXCEPT !.pending_item_key = None, !.input = <<>>,
                                           !.cursor_position = 0]), <<>>)
      [] OTHER -> AppStep(a, <<>>)

handle_browse_key_codes(a, key) ==
    CASE key = "Ctrl-Home" -> AppStep(a, <<Msg("BrowseHome", None)>>)
      [] key \in CharKeys -> AppStep(select_by_input(a, key), <<>>)
      [] key = "Backspace" ->
            LET list == SubSeq(a.browse_match_list, 1, Len(a.browse_match_list) - 1) IN
            AppStep([a EXCEPT !.input = SubSeq(@, 1, Len(@) - 1),
                              !.browse_match_list = list,
                              !.browse_selected = StatefulList_select(Last(list))], <<>>)
      [] key = "Up" ->
            AppStep([a EXCEPT !.browse_selected = StatefulList_prev(a.browse_items, @)], <<>>)
      [] key = "Down" ->
            AppStep([a EXCEPT !.browse_selected = StatefulList_next(a.browse_items, @)], <<>>)
      [] key = "Enter" ->
            LET b == [a EXCEPT !.input = <<>>, !.browse_match_list = <<>>]
                item == StatefulList_get_selected_item(a.browse_items, a.browse_selected)
            IN  IF IsSome(item)
                THEN IF IsSome(input_prompt(Unwrap(item)))
                     THEN AppStep(select_view([b EXCEPT !.pending_item_key = get_item_key(a)],
                                              Some("Prompt")), <<>>)
                     ELSE AppStep(b, <<Msg("BrowseSelected", get_item_key(a))>>)
                ELSE AppStep(b, <<>>)
      [] key = "Esc" ->
            AppStep([a EXCEPT !.input = <<>>, !.browse_match_list = <<>>],
                    <<Msg("BrowseBack", None)>>)
      [] key = "Home" ->
            IF Len(a.input) = 0
            THEN AppStep([a EXCEPT !.browse_selected = StatefulList_select(Some(0))], <<>>)
            ELSE AppStep([a EXCEPT !.input = <<>>, !.browse_match_list = <<>>], <<>>)
      [] key = "F5" -> AppStep(a, <<Msg("BrowseRefresh", None)>>)
      [] OTHER -> AppStep(a, <<>>)

\* App::do_action for a key press; view is the view selected before the key
do_action(a, key) ==
    LET view == a.selected_view
        first ==
            CASE key = "Tab" ->
                    AppStep(select_next_view([a EXCEPT !.input = <<>>,
                                                      !.browse_match_list = <<>>]), <<>>)
              [] key = "BackTab" ->
                    AppStep(select_prev_view([a EXCEPT !.input = <<>>,
                                                      !.browse_match_list = <<>>]), <<>>)
              [] key = "Ctrl-z" ->
                    IF view # Some("Zones")
                    THEN AppStep(select_view(
                            IF view \in {Some("Prompt"), Some("Grouping"), Some("Help")}
                            THEN restore_view(a) ELSE a, Some("Zones")), <<>>)
                    ELSE AppStep(a, <<>>)
              [] key = "Ctrl-Home" -> AppStep(a, <<>>)
              [] key = "Ctrl-a" -> AppStep(a, <<Msg("QueueModeAppend", None)>>)
              [] OTHER ->
                    CASE view = Some("Queue") -> handle_queue_key_codes(a, key)
                      [] view = Some("Zones") -> handle_zone_key_codes(a, key)
                      [] view = Some("Help") -> AppStep(restore_view(a), <<>>)
                      [] OTHER -> AppStep(a, <<>>)
    IN  IF view = Some("Browse")
        THEN LET second == handle_browse_key_codes(first.app, key)
             IN  AppStep(second.app, first.out \o second.out)
        ELSE IF view = Some("Prompt")
        THEN LET second == handle_prompt_key_codes(first.app, key)
             IN  [app |-> second.app, out |-> first.out \o second.out,
                  status |-> second.status]
        ELSE first

\* a faulty variant: it takes every chunk as the next one
OffsetExtendsAlways(offset, browse_items) == TRUE

\* offset == browse_items.len(): the chunk starts where the held list ends
OffsetExtends(offset, browse_items) == offset = Len(browse_items)

\* App::update_on_event for one received event
update_on_event(a, ev) ==
    CASE ev.kind = "Input" -> do_action(a, ev.arg)
      [] ev.kind = "BrowseTitle" ->
            AppStep([(IF IsNone(a.selected_view) THEN select_view(a, Some("Browse")) ELSE a)
                        EXCEPT !.browse_title = Some(ev.arg)], <<>>)
      [] ev.kind = "BrowseList" ->
            IF ev.arg.offset = 0
            THEN AppStep([a EXCEPT !.browse_items = Some(ev.arg.items),
                                   !.browse_selected =
                                       IF a.selected_view = Some("Browse")
                                       THEN StatefulList_select(Some(0)) ELSE @], <<>>)
            ELSE IF IsSome(a.browse_items)
            THEN IF OffsetExtends(ev.arg.offset, Unwrap(a.browse_items))
                 THEN AppStep([a EXCEPT !.browse_items = Some(Unwrap(@) \o ev.arg.items),
                                        !.browse_selected = StatefulList_select(Some(0))], <<>>)
                 ELSE AppStep(a, <<Msg("BrowseRefresh", None)>>)
            ELSE AppStep(a, <<>>)
      [] ev.kind = "QueueList" ->
            AppStep([a EXCEPT !.queue_items = Some(ev.arg)],
                    <<Msg("QueueListLast", Last(ev.arg))>>)
      [] ev.kind = "QueueListChanges" ->
            LET r == apply_queue_changes(a, ev.arg, get_queue_select_string(a)) IN
            [app |-> r.app,
             out |-> IF IsSome(r.app.queue_items) /\ r.status # "panic"
                     THEN <<Msg("QueueListLast", Last(Unwrap(r.app.queue_items)))>>
                     ELSE <<>>,
             status |-> r.status]
      [] ev.kind = "Zones" ->
            LET b == [a EXCEPT !.zones_items = Some(ev.arg)] IN
            AppStep(IF a.selected_view = Some("Zones")
                    THEN [b EXCEPT !.zones_selected = StatefulList_select(zones_index(b))]
                    ELSE b, <<>>)
      [] ev.kind = "ZoneSelect" ->
            LET has_zones == IsSome(a.zones_items)
                    /\ \E i \in 1..Len(Unwrap(a.zones_items)) :
                          Unwrap(a.zones_items)[i][1].type = "Zone"
            IN  AppStep(select_view(
                    IF has_zones THEN [a EXCEPT !.pending_item_key = get_item_key(a)] ELSE a,
                    Some("Zones")), <<>>)
      [] ev.kind = "ZoneChanged" ->
            AppStep([a EXCEPT !.selected_zone = Some(ev.arg), !.pending_item_key = None],
                    IF IsSome(a.pending_item_key)
                    THEN <<Msg("BrowseSelected", a.pending_item_key)>> ELSE <<>>)
      [] ev.kind = "ZoneRemoved" -> AppStep([a EXCEPT !.selected_zone = None], <<>>)
      \* CoreName, QueueModeCurrent, ZoneSeek, ZoneGrouping, ZonePresetMatched and
      \* PauseOnTrackEndActive set display fields only
      [] OTHER -> AppStep(a, <<>>)

\* App::new
AppInit ==
    [ selected_view |-> None, prev_view |-> None,
      browse_title |-> None, browse_items |-> None, browse_selected |-> None,
      pending_item_key |-> None,
      input |-> <<>>, cursor_position |-> 0, browse_match_list |-> <<>>,
      zones_items |-> None, zones_selected |-> None, selected_zone |-> None,
      queue_items |-> None, queue_selected |-> None,
      grouping_selected |-> None ]

(***************************************************************************)
(* The Roon handler (src/src/io/roon.rs).                                  *)
(*                                                                         *)
(* A HashMap is a function on its keys.  Where the code iterates a map and *)
(* the outcome depends on the order, the order is a parameter: a sequence  *)
(* that lists the keys once each.                                          *)
(***************************************************************************)
TUI_BROWSE == "tui_browse"

EmptyMap == [k \in {} |-> None]
MapInsert(m, k, v) == [x \in DOMAIN m \cup {k} |-> IF x = k THEN v ELSE m[x]]
MapRemove(m, k) == [x \in DOMAIN m \ {k} |-> m[x]]
MapGet(m, k) == IF k \in DOMAIN m THEN Some(m[k]) ELSE None

\* the orders in which the keys of a map may be visited
Orders(S) == {o \in [1..Cardinality(S) -> S] : \A i, j \in DOMAIN o : i # j => o[i] # o[j]}

Contains(s, x) == \E i \in 1..Len(s) : s[i] = x

\* the ids and names of the model, each list in the order of String::cmp
OutputIdSeq == <<"o1", "o2", "o3">>
ZoneIdSeq == <<"z1", "z2", "z3">>
PresetNameSeq == <<"P1", "P2">>
DisplayNameSeq == <<"Den", "Hall", "Loft", "P1", "P2">>
OutputIdSet == {OutputIdSeq[i] : i \in DOMAIN OutputIdSeq}
ZoneIdSet == {ZoneIdSeq[i] : i \in DOMAIN ZoneIdSeq}
PresetNameSet == {PresetNameSeq[i] : i \in DOMAIN PresetNameSeq}

RankIn(seq, x) == CHOOSE i \in DOMAIN seq : seq[i] = x
IdRank(id) == RankIn(OutputIdSeq, id)
NameRank(name) == RankIn(DisplayNameSeq, name)

\* the keys of map m in the order in which ord visits them
IterKeys(m, ord) == SelectSeq(ord, LAMBDA k : k \in DOMAIN m)

\* <[T]>::sort on strings: the ids are compared as the text they are
RECURSIVE SortIds(_)
SortIds(s) ==
    IF Len(s) <= 1 THEN s
    ELSE LET least == CHOOSE i \in 1..Len(s) :
                         \A j \in 1..Len(s) : IdRank(s[i]) <= IdRank(s[j])
         IN  <<s[least]>> \o SortIds(SubSeq(s, 1, least - 1) \o SubSeq(s, least + 1, Len(s)))

\* output_ids[1..].sort(): the first id stays, the rest is sorted
SortTail(ids) == <<ids[1]>> \o SortIds(Tail(ids))

\* BrowseOpts::default() and LoadOpts::default()
BrowseOptsDefault ==
    [ item_key |-> None, pop_all |-> FALSE, pop_levels |-> None, refresh_list |-> FALSE,
      input |-> None, zone_or_output_id |-> None, multi_session_key |-> None ]
LoadOptsDefault ==
    [ count |-> None, offset |-> 0, set_display_offset |-> 0, multi_session_key |-> None ]

\* a request to the server
Req(op, arg) == [op |-> op, arg |-> arg]

\* the running handler call: the handler, what it sent to the UI, what it
\* requested from the server, and the scripted sessions it touched
Ctx(h) == [h |-> h, tx |-> <<>>, rpc |-> <<>>, trace |-> <<>>, saved |-> None,
           status |-> "ok"]
Tx(c, kind, arg) == [c EXCEPT !.tx = Append(@, Msg(kind, arg))]
Rpc(c, op, arg) == [c EXCEPT !.rpc = Append(@, Req(op, arg))]
Trace(c, entry) == [c EXCEPT !.trace = Append(@, entry)]
Panic(c) == [c EXCEPT !.status = "panic"]
\* RoonApi::save_config of the settings
Save(c) == [c EXCEPT !.saved = Some(c.h.settings)]
\* a call that hands back a value next to the running handler call
Ret(c, val) == [c |-> c, val |-> val, done |-> TRUE]

OutputIds(zone) == [i \in 1..Len(zone.outputs) |-> zone.outputs[i].output_id]

\* a faulty variant: it compares the ids position by position
match_preset_positional(presets, ord, output_ids) ==
    IF IsNone(presets) THEN None
    ELSE LET ps == Unwrap(presets)
             order == IterKeys(ps, ord)
             Hit(name) == output_ids = [i \in 1..Len(ps[name]) |-> ps[name][i][1]]
         IN  IF \E i \in 1..Len(order) : Hit(order[i])
             THEN Some(order[CHOOSE i \in 1..Len(order) :
                                Hit(order[i]) /\ \A j \in 1..(i-1) : ~Hit(order[j])])
             ELSE None

\* RoonHandler::match_preset for a list of at least one id (the slice [1..]
\* of an empty list panics, which the callers test); ord is the order in which
\* the preset table is iterated
match_preset(presets, ord, output_ids) ==
    IF IsNone(presets) THEN None
    ELSE LET ps == Unwrap(presets)
             order == IterKeys(ps, ord)
             sorted == SortTail(output_ids)
             Hit(name) ==
                 /\ Len(sorted) = Len(ps[name])
                 /\ Cardinality({i \in 1..Len(ps[name]) : Contains(sorted, ps[name][i][1])})
                        = Len(ps[name])
         IN  IF \E i \in 1..Len(order) : Hit(order[i])
             THEN Some(order[CHOOSE i \in 1..Len(order) :
                                Hit(order[i]) /\ \A j \in 1..(i-1) : ~Hit(order[j])])
             ELSE None

\* a faulty variant: it leaves the entries in the order of the map
SortByNameKeep(s) == s

\* slice::sort_by on the display name (a stable sort) of (end point, name) pairs
RECURSIVE SortByName(_)
SortByName(s) ==
    IF Len(s) <= 1 THEN s
    ELSE LET least == CHOOSE i \in 1..Len(s) :
                         /\ \A j \in 1..Len(s) : NameRank(s[i][2]) <= NameRank(s[j][2])
                         /\ \A j \in 1..(i-1) : NameRank(s[j][2]) > NameRank(s[i][2])
         IN  <<s[least]>> \o SortByName(SubSeq(s, 1, least - 1) \o SubSeq(s, least + 1, Len(s)))

RECURSIVE Concat(_)
Concat(ss) == IF Len(ss) = 0 THEN <<>> ELSE Head(ss) \o Concat(Tail(ss))

\* RoonHandler::send_zone_list
send_zone_list(c, ord) ==
    LET h == c.h
        zkeys == IterKeys(h.zone_map, ord.z)
        zones == [i \in 1..Len(zkeys) |->
                    <<EndPoint("Zone", zkeys[i]),
                      IF zkeys[i] \in DOMAIN h.matched_zones
                      THEN h.matched_zones[zkeys[i]]
                      ELSE h.zone_map[zkeys[i]].display_name>>]
        outputs == Concat([i \in 1..Len(zkeys) |->
                    LET outs == h.zone_map[zkeys[i]].outputs IN
                    IF Len(outs) > 1
                    THEN [k \in 1..Len(outs) |->
                            <<EndPoint("Output", outs[k].output_id), outs[k].display_name>>]
                    ELSE <<>>])
        presets ==
            IF IsSome(h.settings.presets)
            THEN LET pkeys == SelectSeq(IterKeys(Unwrap(h.settings.presets), ord.p),
                                  LAMBDA name : ~\E z \in DOMAIN h.matched_zones :
                                                    h.matched_zones[z] = name)
                 IN  [i \in 1..Len(pkeys) |-> <<EndPoint("Preset", pkeys[i]), pkeys[i]>>]
            ELSE <<>>
    IN  Tx(c, "Zones", SortByName(zones) \o SortByName(outputs) \o SortByName(presets))

\* RoonHandler::browse_profile: the request, and the script of the session
browse_profile(c) ==
    IF IsNone(c.h.settings.zone_id) \/ ~c.h.browse THEN Ret(c, None)
    ELSE Ret(Rpc(c, "browse", [BrowseOptsDefault EXCEPT
                                  !.multi_session_key = c.h.settings.zone_id]),
             Some(<<"", "Profile", "Settings">>))

\* browse_paths.insert(key, path) when a script was handed back
InsertPath(r, key) ==
    IF IsSome(r.val)
    THEN Trace([r.c EXCEPT !.h.browse_paths = MapInsert(@, key, Unwrap(r.val))],
               [what |-> "start", key |-> key, len |-> Len(Unwrap(r.val))])
    ELSE r.c

\* a faulty variant: it does not look at the length of the item that plays
handle_queue_mode_any_length(c, zone, play) ==
    IF IsNone(zone) THEN Ret(c, None)
    ELSE LET z == Unwrap(zone)
             play_action == IF play THEN "Play Now" ELSE "Queue"
             opts == [BrowseOptsDefault EXCEPT !.pop_all = TRUE,
                                                !.multi_session_key = Some(z.zone_id)]
         IN  IF Len(z.outputs) = 0 \/ IsNone(c.h.settings.queue_modes) THEN Ret(c, None)
             ELSE IF z.outputs[1].output_id \notin DOMAIN Unwrap(c.h.settings.queue_modes)
             THEN Ret(c, None)
             ELSE LET queue_mode == Unwrap(c.h.settings.queue_modes)[z.outputs[1].output_id] IN
                  CASE queue_mode = "RandomAlbum" ->
                          IF ~c.h.browse THEN Ret(c, None)
                          ELSE Ret(Rpc(c, "browse", opts),
                                   Some(<<play_action, "Play Album", "", "Albums", "Library">>))
                    [] queue_mode = "RandomTrack" ->
                          IF ~c.h.browse THEN Ret(c, None)
                          ELSE Ret(Rpc(c, "browse", opts),
                                   Some(<<play_action, "", "Tracks", "Library">>))
                    [] OTHER -> Ret(c, None)

\* RoonHandler::handle_queue_mode
handle_queue_mode(c, zone, play) ==
    IF IsNone(zone) THEN Ret(c, None)
    ELSE LET z == Unwrap(zone)
             play_action == IF play THEN "Play Now" ELSE "Queue"
             opts == [BrowseOptsDefault EXCEPT !.pop_all = TRUE,
                                                !.multi_session_key = Some(z.zone_id)]
         IN  IF Len(z.outputs) = 0 \/ IsNone(c.h.settings.queue_modes) THEN Ret(c, None)
             ELSE IF z.outputs[1].output_id \notin DOMAIN Unwrap(c.h.settings.queue_modes)
             THEN Ret(c, None)
             ELSE IF play /\ IsSome(z.now_playing) /\ IsNone(Unwrap(z.now_playing).length)
             THEN Ret(c, None)
             ELSE LET queue_mode == Unwrap(c.h.settings.queue_modes)[z.outputs[1].output_id] IN
                  CASE queue_mode = "RandomAlbum" ->
                          IF ~c.h.browse THEN Ret(c, None)
                          ELSE Ret(Rpc(c, "browse", opts),
                                   Some(<<play_action, "Play Album", "", "Albums", "Library">>))
                    [] queue_mode = "RandomTrack" ->
                          IF ~c.h.browse THEN Ret(c, None)
                          ELSE Ret(Rpc(c, "browse", opts),
                                   Some(<<play_action, "", "Tracks", "Library">>))
                    [] OTHER -> Ret(c, None)

\* a faulty variant: it copies the mode to the output id and keeps the entry
\* under the zone id
sync_and_save_queue_mode_keep(c) ==
    LET h == c.h IN
    IF IsNone(h.settings.zone_id) THEN c
    ELSE IF Unwrap(h.settings.zone_id) \notin DOMAIN h.zone_map THEN c
    ELSE LET zone_id == Unwrap(h.settings.zone_id)
             zone == h.zone_map[zone_id]
         IN  IF Len(zone.outputs) = 0 THEN c
             ELSE LET output_id == zone.outputs[1].output_id
                      modes0 == IF IsNone(h.settings.queue_modes) THEN EmptyMap
                                ELSE Unwrap(h.settings.queue_modes)
                      modes1 == IF zone_id \in DOMAIN modes0
                                THEN MapInsert(modes0, output_id, modes0[zone_id])
                                ELSE modes0
                      queue_mode ==
                          IF zone.auto_radio THEN "RoonRadio"
                          ELSE IF output_id \in DOMAIN modes1
                          THEN IF modes1[output_id] = "RoonRadio" THEN "Manual"
                               ELSE modes1[output_id]
                          ELSE "Manual"
                      c1 == Tx(c, "QueueModeCurrent", queue_mode)
                  IN  Save([c1 EXCEPT !.h.settings.queue_modes =
                                         Some(MapInsert(modes1, output_id, queue_mode))])

\* a faulty variant: it keeps a stored RoonRadio while auto radio is off
sync_and_save_queue_mode_stored(c) ==
    LET h == c.h IN
    IF IsNone(h.settings.zone_id) THEN c
    ELSE IF Unwrap(h.settings.zone_id) \notin DOMAIN h.zone_map THEN c
    ELSE LET zone_id == Unwrap(h.settings.zone_id)
             zone == h.zone_map[zone_id]
         IN  IF Len(zone.outputs) = 0 THEN c
             ELSE LET output_id == zone.outputs[1].output_id
                      modes0 == IF IsNone(h.settings.queue_modes) THEN EmptyMap
                                ELSE Unwrap(h.settings.queue_modes)
                      modes1 == IF zone_id \in DOMAIN modes0
                                THEN MapInsert(MapRemove(modes0, zone_id), output_id,
                                               modes0[zone_id])
                                ELSE modes0
                      queue_mode ==
                          IF zone.auto_radio THEN "RoonRadio"
                          ELSE IF output_id \in DOMAIN modes1 THEN modes1[output_id]
                          ELSE "Manual"
                      c1 == Tx(c, "QueueModeCurrent", queue_mode)
                  IN  Save([c1 EXCEPT !.h.settings.queue_modes =
                                         Some(MapInsert(modes1, output_id, queue_mode))])

\* RoonHandler::sync_and_save_queue_mode
sync_and_save_queue_mode(c) ==
    LET h == c.h IN
    IF IsNone(h.settings.zone_id) THEN c
    ELSE IF Unwrap(h.settings.zone_id) \notin DOMAIN h.zone_map THEN c
    ELSE LET zone_id == Unwrap(h.settings.zone_id)
             zone == h.zone_map[zone_id]
         IN  IF Len(zone.outputs) = 0 THEN c
             ELSE LET output_id == zone.outputs[1].output_id
                      modes0 == IF IsNone(h.settings.queue_modes) THEN EmptyMap
                                ELSE Unwrap(h.settings.queue_modes)
                      modes1 == IF zone_id \in DOMAIN modes0
                                THEN MapInsert(MapRemove(modes0, zone_id), output_id,
                                               modes0[zone_id])
                                ELSE modes0
                      queue_mode ==
                          IF zone.auto_radio THEN "RoonRadio"
                          ELSE IF output_id \in DOMAIN modes1
                          THEN IF modes1[output_id] = "RoonRadio" THEN "Manual"
                               ELSE modes1[output_id]
                          ELSE "Manual"
                      c1 == Tx(c, "QueueModeCurrent", queue_mode)
                  IN  Save([c1 EXCEPT !.h.settings.queue_modes =
                                         Some(MapInsert(modes1, output_id, queue_mode))])

\* RoonHandler::seek_to_end
seek_to_end(c, zone_id, seek_seconds) ==
    IF ~c.h.transport \/ IsNone(zone_id) \/ IsNone(seek_seconds) THEN c
    ELSE Rpc(c, "seek", [zone_id |-> Unwrap(zone_id), seconds |-> Unwrap(seek_seconds)])

\* RoonHandler::send_zone_changed
send_zone_changed(c, new_zone) ==
    IF IsNone(c.h.settings.zone_id) THEN c
    ELSE IF Unwrap(c.h.settings.zone_id) \notin DOMAIN c.h.zone_map THEN c
    ELSE LET zone_id == Unwrap(c.h.settings.zone_id)
             zone == c.h.zone_map[zone_id]
             rest(c0) ==
                 LET c1 == IF zone.state # "Playing"
                           THEN IF c0.h.pause_on_track_end
                                THEN Tx([c0 EXCEPT !.h.pause_on_track_end = FALSE],
                                        "PauseOnTrackEndActive", FALSE)
                                ELSE c0
                           ELSE seek_to_end([c0 EXCEPT !.h.seek_seconds = None],
                                            Some(zone_id), c0.h.seek_seconds)
                     matched_preset == MapGet(c1.h.matched_zones, zone_id)
                 IN  Tx(Tx(c1, "ZonePresetMatched", matched_preset), "ZoneChanged", zone)
         IN  IF new_zone
             THEN IF ~c.h.transport THEN c
                  ELSE rest(Rpc(InsertPath(browse_profile(Rpc(c, "subscribe_queue", zone_id)),
                                           zone_id),
                                "get_zones", None))
             ELSE rest(c)

\* a faulty variant: after the ungroup request it returns no pending target
RECURSIVE update_grouping_loop_forget(_, _, _, _, _)
update_grouping_loop_forget(c, new_ids, zkeys, i, ord) ==
    IF i > Len(zkeys) THEN [c |-> c, val |-> None, done |-> FALSE]
    ELSE LET zone == c.h.zone_map[zkeys[i]]
             current_ids == OutputIds(zone)
             matches_all ==
                 /\ Len(new_ids) = Len(current_ids)
                 /\ (IF Len(new_ids) = 0 THEN Len(current_ids) = 0
                     ELSE Len(current_ids) > 0 /\ new_ids[1] = current_ids[1])
                 /\ \A k \in 1..Len(new_ids) : Contains(current_ids, new_ids[k])
             overlaps == \E k \in 1..Len(current_ids) : Contains(new_ids, current_ids[k])
         IN  IF matches_all
             THEN IF Len(new_ids) = 0 THEN Ret(Panic(c), None)
                  ELSE LET preset == match_preset(c.h.settings.presets, ord.p, new_ids) IN
                       IF IsSome(preset)
                       THEN Ret(Tx(send_zone_list(
                                     [c EXCEPT !.h.matched_zones =
                                         MapInsert(@, zone.zone_id, Unwrap(preset))], ord),
                                   "ZonePresetMatched", preset), None)
                       ELSE Ret(c, None)
             ELSE IF Len(current_ids) > 1 /\ overlaps
             THEN IF ~c.h.transport THEN Ret(c, None)
                  ELSE Ret(Rpc(c, "ungroup_outputs", current_ids), None)
             ELSE update_grouping_loop_forget(c, new_ids, zkeys, i + 1, ord)

\* the loop of update_grouping over the zone map from the i-th zone on;
\* done is FALSE when no zone made it return
RECURSIVE update_grouping_loop(_, _, _, _, _)
update_grouping_loop(c, new_ids, zkeys, i, ord) ==
    IF i > Len(zkeys) THEN [c |-> c, val |-> None, done |-> FALSE]
    ELSE LET zone == c.h.zone_map[zkeys[i]]
             current_ids == OutputIds(zone)
             matches_all ==
                 /\ Len(new_ids) = Len(current_ids)
                 /\ (IF Len(new_ids) = 0 THEN Len(current_ids) = 0
                     ELSE Len(current_ids) > 0 /\ new_ids[1] = current_ids[1])
                 /\ \A k \in 1..Len(new_ids) : Contains(current_ids, new_ids[k])
             overlaps == \E k \in 1..Len(current_ids) : Contains(new_ids, current_ids[k])
         IN  IF matches_all
             THEN IF Len(new_ids) = 0 THEN Ret(Panic(c), None)
                  ELSE LET preset == match_preset(c.h.settings.presets, ord.p, new_ids) IN
                       IF IsSome(preset)
                       THEN Ret(Tx(send_zone_list(
                                     [c EXCEPT !.h.matched_zones =
                                         MapInsert(@, zone.zone_id, Unwrap(preset))], ord),
                                   "ZonePresetMatched", preset), None)
                       ELSE Ret(c, None)
             ELSE IF Len(current_ids) > 1 /\ overlaps
             THEN IF ~c.h.transport THEN Ret(c, None)
                  ELSE Ret(Rpc(c, "ungroup_outputs", current_ids), Some(new_ids))
             ELSE update_grouping_loop(c, new_ids, zkeys, i + 1, ord)

\* a faulty variant: it requests the grouping of a single output as well
update_grouping_any_length(c, new_ids, ord) ==
    LET r == update_grouping_loop(c, new_ids, IterKeys(c.h.zone_map, ord.z), 1, ord) IN
    IF r.done THEN r
    ELSE IF ~c.h.transport THEN Ret(c, None)
    ELSE Ret(Rpc(c, "group_outputs", new_ids), Some(new_ids))

\* RoonHandler::update_grouping: val is the pending target it returns
update_grouping(c, new_ids, ord) ==
    LET r == update_grouping_loop(c, new_ids, IterKeys(c.h.zone_map, ord.z), 1, ord) IN
    IF r.done THEN r
    ELSE IF Len(new_ids) > 1
    THEN IF ~c.h.transport THEN Ret(c, None)
         ELSE Ret(Rpc(c, "group_outputs", new_ids), Some(new_ids))
    ELSE Ret(c, None)

\* zone_output_ids = update_grouping(ids)
set_grouping(c, new_ids, ord) ==
    LET r == update_grouping(c, new_ids, ord) IN
    [r.c EXCEPT !.h.zone_output_ids = r.val]

gen_range(low, high) == low..(high - 1)

\* the random draws a server message may ask for
Draws(ev) ==
    IF ev.kind = "BrowseResult" /\ ev.arg.action = "List" /\ IsSome(ev.arg.list)
    THEN LET dr == gen_range(0, Unwrap(ev.arg.list).count) IN IF dr = {} THEN {0} ELSE dr
    ELSE {0}

\* handle_msg_event, Parsed::Zones
msg_zones(c, zones, ord) ==
    LET h == c.h
        \* the zone that holds all pending output ids
        Holds(zone) ==
            Cardinality({k \in 1..Len(zone.outputs) :
                            Contains(Unwrap(h.zone_output_ids), zone.outputs[k].output_id)})
                = Len(Unwrap(h.zone_output_ids))
        grouped == IF IsSome(h.zone_output_ids) THEN Position(zones, Holds) ELSE None
        c1 == IF IsSome(grouped)
              THEN Save([c EXCEPT !.h.settings.zone_id = Some(zones[Unwrap(grouped) + 1].zone_id),
                                  !.h.zone_output_ids = None])
              ELSE c
        IsOrphan(zone) == Len(zone.outputs) > 0
                            /\ zone.outputs[1].output_id = Unwrap(h.orphaned_output_id)
        orphan == IF IsSome(h.orphaned_output_id) THEN Position(zones, IsOrphan) ELSE None
        c2 == IF IsSome(h.orphaned_output_id)
              THEN Save([c1 EXCEPT !.h.orphaned_output_id = None,
                                   !.h.settings.zone_id =
                                       IF IsSome(orphan)
                                       THEN Some(zones[Unwrap(orphan) + 1].zone_id) ELSE None])
              ELSE c1
        new_zone == IsSome(c2.h.settings.zone_id)
                      /\ Unwrap(c2.h.settings.zone_id) \notin DOMAIN c2.h.zone_map
        \* later zones of the push replace earlier ones with the same id
        inserted == [id \in DOMAIN c2.h.zone_map \cup {zones[k].zone_id : k \in 1..Len(zones)} |->
                        IF \E k \in 1..Len(zones) : zones[k].zone_id = id
                        THEN zones[CHOOSE k \in 1..Len(zones) :
                                      zones[k].zone_id = id
                                      /\ \A j \in (k+1)..Len(zones) : zones[j].zone_id # id]
                        ELSE c2.h.zone_map[id]]
        c3 == [c2 EXCEPT !.h.zone_map = inserted]
        matched == [id \in DOMAIN c3.h.matched_zones \cup
                            {z \in DOMAIN inserted :
                                Len(inserted[z].outputs) > 0
                                /\ IsSome(match_preset(c3.h.settings.presets, ord.p,
                                                       OutputIds(inserted[z])))} |->
                      IF id \in DOMAIN inserted /\ Len(inserted[id].outputs) > 0
                         /\ IsSome(match_preset(c3.h.settings.presets, ord.p,
                                                OutputIds(inserted[id])))
                      THEN Unwrap(match_preset(c3.h.settings.presets, ord.p,
                                               OutputIds(inserted[id])))
                      ELSE c3.h.matched_zones[id]]
    IN  IF IsNone(c3.h.zone_output_ids)
        THEN IF \E z \in DOMAIN inserted : Len(inserted[z].outputs) = 0
             THEN Panic(c3)
             ELSE send_zone_list(
                     send_zone_changed(
                         sync_and_save_queue_mode([c3 EXCEPT !.h.matched_zones = matched]),
                         new_zone),
                     ord)
        ELSE c3

\* RoonHandler::control
control(c, zone_id, how) ==
    IF zone_id \notin DOMAIN c.h.zone_map \/ ~c.h.transport THEN c
    ELSE Rpc(c, "control", [zone_id |-> zone_id, how |-> how])

\* a faulty variant: it leaves the preset-match table as it is
msg_zones_removed_keep_matched(c, zone_ids, ord) ==
    LET h == c.h
        c1 == IF IsSome(h.settings.zone_id) /\ Contains(zone_ids, Unwrap(h.settings.zone_id))
              THEN Tx(Tx(c, "ZoneRemoved", Unwrap(h.settings.zone_id)),
                      "ZonePresetMatched", None)
              ELSE c
        gone == {zone_ids[k] : k \in 1..Len(zone_ids)}
        c2 == [c1 EXCEPT !.h.zone_map = [z \in DOMAIN @ \ gone |-> @[z]]]
    IN  IF IsSome(h.zone_output_ids)
        THEN IF ~h.transport THEN c2
             ELSE Rpc(c2, "group_outputs", Unwrap(h.zone_output_ids))
        ELSE send_zone_list(c2, ord)

\* handle_msg_event, Parsed::ZonesRemoved
msg_zones_removed(c, zone_ids, ord) ==
    LET h == c.h
        c1 == IF IsSome(h.settings.zone_id) /\ Contains(zone_ids, Unwrap(h.settings.zone_id))
              THEN Tx(Tx(c, "ZoneRemoved", Unwrap(h.settings.zone_id)),
                      "ZonePresetMatched", None)
              ELSE c
        gone == {zone_ids[k] : k \in 1..Len(zone_ids)}
        c2 == [c1 EXCEPT !.h.matched_zones = [z \in DOMAIN @ \ gone |-> @[z]],
                         !.h.zone_map = [z \in DOMAIN @ \ gone |-> @[z]]]
    IN  IF IsSome(h.zone_output_ids)
        THEN IF ~h.transport THEN c2
             ELSE Rpc(c2, "group_outputs", Unwrap(h.zone_output_ids))
        ELSE send_zone_list(c2, ord)

\* the second loop of Parsed::ZonesSeek, from the i-th seek on
RECURSIVE seek_queue_modes(_, _, _)
seek_queue_modes(c, seeks, i) ==
    IF i > Len(seeks) THEN c
    ELSE LET seek == seeks[i] IN
         IF seek.queue_time_remaining >= 0 /\ seek.queue_time_remaining <= 3
         THEN seek_queue_modes(
                 InsertPath(handle_queue_mode(c, MapGet(c.h.zone_map, seek.zone_id), TRUE),
                            seek.zone_id),
                 seeks, i + 1)
         ELSE seek_queue_modes(c, seeks, i + 1)

\* handle_msg_event, Parsed::ZonesSeek
msg_zones_seek(c, seeks) ==
    LET h == c.h
        IsSelected(seek) == seek.zone_id = Unwrap(h.settings.zone_id)
        index == IF IsSome(h.settings.zone_id) THEN Position(seeks, IsSelected) ELSE None
        c1 == IF IsSome(index)
              THEN LET seek == seeks[Unwrap(index) + 1]
                       c0 == IF IsSome(seek.seek_position) /\ Unwrap(seek.seek_position) = 0
                                /\ h.pause_on_track_end
                             THEN Tx([control(c, Unwrap(h.settings.zone_id), "Pause")
                                         EXCEPT !.h.pause_on_track_end = FALSE],
                                     "PauseOnTrackEndActive", FALSE)
                             ELSE c
                   IN  Tx(c0, "ZoneSeek", seek)
              ELSE c
    IN  seek_queue_modes(c1, seeks, 1)

\* handle_msg_event, Parsed::BrowseResult; draw is what the random generator returns
msg_browse_result(c, result, draw) ==
    CASE result.action = "List" ->
            IF IsNone(result.list) \/ IsNone(result.key) THEN c
            ELSE LET list == Unwrap(result.list)
                     key == Unwrap(result.key)
                 IN  IF key = TUI_BROWSE
                     THEN LET offset == IF IsSome(list.display_offset)
                                        THEN Unwrap(list.display_offset) ELSE 0
                              c1 == Tx(c, "BrowseTitle", list.title)
                          IN  IF ~c.h.browse THEN c1
                              ELSE Rpc(c1, "load", [LoadOptsDefault EXCEPT
                                          !.offset = offset, !.set_display_offset = offset,
                                          !.multi_session_key = result.key])
                     ELSE IF list.title = "Albums" \/ list.title = "Tracks"
                     THEN IF gen_range(0, list.count) = {} THEN Panic(c)
                          ELSE IF ~c.h.browse THEN c
                          ELSE Rpc(c, "load", [LoadOptsDefault EXCEPT
                                      !.count = Some(1), !.offset = draw,
                                      !.set_display_offset = draw,
                                      !.multi_session_key = result.key])
                     ELSE IF ~c.h.browse THEN c
                     ELSE Rpc(c, "load", [LoadOptsDefault EXCEPT
                                             !.multi_session_key = result.key])
      [] result.action = "Message" ->
            IF IsNone(result.is_error) \/ IsNone(result.message) THEN Panic(c)
            ELSE IF Unwrap(result.is_error) /\ Unwrap(result.message) = "Zone is not configured"
            THEN Tx(IF DOMAIN c.h.zone_map = {} THEN [c EXCEPT !.h.opts.item_key = None] ELSE c,
                    "ZoneSelect", None)
            ELSE c
      [] OTHER -> c

\* a faulty variant: an empty step takes the first item of a Profile list too
script_item_first(step, result, profile) ==
    LET TitleIs(t) == LET P(item) == item.title = t IN Position(result.items, P) IN
    IF step = ""
    THEN IF Len(result.items) > 0 THEN Some(0) ELSE None
    ELSE TitleIs(step)

\* the item a script step selects
script_item(step, result, profile) ==
    LET TitleIs(t) == LET P(item) == item.title = t IN Position(result.items, P) IN
    IF step = ""
    THEN IF result.list.title = "Profile"
         THEN IF IsSome(profile) THEN TitleIs(Unwrap(profile)) ELSE None
         ELSE IF Len(result.items) > 0 THEN Some(0) ELSE None
    ELSE TitleIs(step)

\* a faulty variant: it leaves the last step of a script in the session table
script_remove_never(path) == FALSE

\* whether the session is removed once a step was popped
script_remove(path) == Len(path) = 0

\* a faulty variant: it asks for a further chunk after the last one as well
MoreToLoadInclusive(new_offset, count) == new_offset <= count
\* the list has items beyond this chunk
MoreToLoad(new_offset, count) == new_offset < count

\* a faulty variant: it never records that the top level is reached
ReachedHomeNever(level) == FALSE
\* the list is the top level of the hierarchy
ReachedHome(level) == level = 0

\* handle_msg_event, Parsed::LoadResult
msg_load_result(c, result) ==
    IF IsNone(result.key) THEN c
    ELSE LET key == Unwrap(result.key) h == c.h IN
         IF key = TUI_BROWSE
         THEN LET new_offset == result.offset + Len(result.items)
                  c1 == IF MoreToLoad(new_offset, result.list.count)
                        THEN IF ~h.browse THEN Ret(c, FALSE)
                             ELSE Ret(Rpc(c, "load", [LoadOptsDefault EXCEPT
                                         !.offset = new_offset,
                                         !.set_display_offset = new_offset,
                                         !.multi_session_key = result.key]), TRUE)
                        ELSE Ret(c, TRUE)
                  KeyedItems == SelectSeq(result.items, LAMBDA item : IsSome(item.item_key))
              IN  IF ~c1.val THEN c
                  ELSE Tx([c1.c EXCEPT
                             !.h.profiles =
                                 IF result.list.title = "Profile"
                                 THEN Some([i \in 1..Len(KeyedItems) |->
                                              <<Unwrap(KeyedItems[i].item_key), KeyedItems[i].title>>])
                                 ELSE None,
                             !.h.browse_reached_home = ReachedHome(result.list.level)],
                          "BrowseList", [offset |-> result.offset, items |-> result.items])
         ELSE IF key \notin DOMAIN h.browse_paths THEN c
         ELSE IF Len(h.browse_paths[key]) = 0 THEN c
         ELSE LET path == h.browse_paths[key]
                  step == path[Len(path)]
                  rest == SubSeq(path, 1, Len(path) - 1)
                  c1 == [c EXCEPT !.h.browse_paths =
                            IF script_remove(rest) THEN MapRemove(@, key)
                            ELSE [@ EXCEPT ![key] = rest]]
                  item == script_item(step, result, h.settings.profile)
                  issued == IsSome(item) /\ h.browse
                  c2 == Trace(c1, [what |-> "step", key |-> key, matched |-> IsSome(item),
                                   issued |-> issued])
              IN  IF issued
                  THEN Rpc(c2, "browse", [BrowseOptsDefault EXCEPT
                              !.zone_or_output_id = result.key,
                              !.item_key = result.items[Unwrap(item) + 1].item_key,
                              !.multi_session_key = result.key])
                  ELSE c2

\* RoonHandler::handle_msg_event
handle_msg_event(c, ev, ord, draw) ==
    CASE ev.kind = "Zones" -> msg_zones(c, ev.arg, ord)
      [] ev.kind = "ZonesRemoved" -> msg_zones_removed(c, ev.arg, ord)
      [] ev.kind = "ZonesSeek" -> msg_zones_seek(c, ev.arg)
      [] ev.kind = "Queue" -> Tx(c, "QueueList", ev.arg)
      [] ev.kind = "QueueChanges" -> Tx(c, "QueueListChanges", ev.arg)
      [] ev.kind = "BrowseResult" -> msg_browse_result(c, ev.arg, draw)
      [] ev.kind = "LoadResult" -> msg_load_result(c, ev.arg)
      [] OTHER -> c

\* RoonHandler::handle_core_event
handle_core_event(c, ev) ==
    CASE ev.kind = "Found" ->
            \* the server offers both services
            LET c1 == [c EXCEPT !.h.browse = TRUE, !.h.transport = TRUE,
                                !.h.opts.pop_all = TRUE]
            IN  Tx(Rpc(Rpc(c1, "browse", c1.h.opts), "subscribe_zones", None),
                   "CoreName", Some("core"))
      [] ev.kind = "Lost" -> Tx(c, "CoreName", None)
      [] OTHER -> c

\* RoonHandler::get_profile_name
get_profile_name(h, item_key) ==
    IF IsNone(h.profiles) \/ IsNone(item_key) THEN None
    ELSE LET KeyIs(p) == p[1] = Unwrap(item_key)
             index == Position(Unwrap(h.profiles), KeyIs)
         IN  IF IsSome(index) THEN Some(Unwrap(h.profiles)[Unwrap(index) + 1][2]) ELSE None

\* the queue modes in the order of their ordinals (QueueMode, src/src/io/mod.rs)
QueueModeSeq == <<"Manual", "RoonRadio", "RandomAlbum", "RandomTrack">>

\* a faulty variant: it steps through all four modes without a profile too
select_next_queue_mode_all(c) ==
    LET h == c.h IN
    IF IsNone(h.settings.zone_id) THEN Ret(c, None)
    ELSE IF Unwrap(h.settings.zone_id) \notin DOMAIN h.zone_map THEN Ret(c, None)
    ELSE IF Len(h.zone_map[Unwrap(h.settings.zone_id)].outputs) = 0 THEN Ret(c, None)
    ELSE LET output_id == h.zone_map[Unwrap(h.settings.zone_id)].outputs[1].output_id
             modes == IF IsNone(h.settings.queue_modes) THEN EmptyMap
                      ELSE Unwrap(h.settings.queue_modes)
             queue_mode ==
                 IF output_id \notin DOMAIN modes THEN "Manual"
                 ELSE LET index == RankIn(QueueModeSeq, modes[output_id]) IN
                      IF index + 1 <= Len(QueueModeSeq) THEN QueueModeSeq[index + 1]
                      ELSE "Manual"
         IN  Ret(Tx([c EXCEPT !.h.settings.queue_modes =
                         Some(MapInsert(modes, output_id, queue_mode))],
                    "QueueModeCurrent", queue_mode),
                 Some(queue_mode))

\* RoonHandler::select_next_queue_mode: val is the mode it hands back
select_next_queue_mode(c) ==
    LET h == c.h IN
    IF IsNone(h.settings.zone_id) THEN Ret(c, None)
    ELSE IF Unwrap(h.settings.zone_id) \notin DOMAIN h.zone_map THEN Ret(c, None)
    ELSE IF Len(h.zone_map[Unwrap(h.settings.zone_id)].outputs) = 0 THEN Ret(c, None)
    ELSE LET output_id == h.zone_map[Unwrap(h.settings.zone_id)].outputs[1].output_id
             modes == IF IsNone(h.settings.queue_modes) THEN EmptyMap
                      ELSE Unwrap(h.settings.queue_modes)
             seq == IF IsNone(h.settings.profile) THEN SubSeq(QueueModeSeq, 1, 2)
                    ELSE QueueModeSeq
             queue_mode ==
                 IF output_id \notin DOMAIN modes THEN "Manual"
                 ELSE LET index == RankIn(QueueModeSeq, modes[output_id]) IN
                      \* index is the ordinal plus one, seq[index + 1] is seq.get(index)
                      IF index + 1 <= Len(seq) THEN seq[index + 1] ELSE "Manual"
         IN  Ret(Tx([c EXCEPT !.h.settings.queue_modes =
                         Some(MapInsert(modes, output_id, queue_mode))],
                    "QueueModeCurrent", queue_mode),
                 Some(queue_mode))

\* RoonHandler::set_roon_radio; the request is answered with an id
set_roon_radio(c, auto_radio) ==
    IF IsNone(c.h.settings.zone_id) THEN Ret(c, None)
    ELSE IF Unwrap(c.h.settings.zone_id) \notin DOMAIN c.h.zone_map \/ ~c.h.transport
    THEN Ret(c, None)
    ELSE Ret(Rpc(c, "change_settings",
                 [zone_id |-> Unwrap(c.h.settings.zone_id), auto_radio |-> auto_radio]),
             Some(0))

\* a faulty variant: it grants the request whatever the zone plays
handle_pause_on_track_end_req_any(h) ==
    IF IsNone(h.settings.zone_id) THEN None
    ELSE IF Unwrap(h.settings.zone_id) \notin DOMAIN h.zone_map THEN None
    ELSE Some(TRUE)

\* RoonHandler::handle_pause_on_track_end_req
handle_pause_on_track_end_req(h) ==
    IF IsNone(h.settings.zone_id) THEN None
    ELSE IF Unwrap(h.settings.zone_id) \notin DOMAIN h.zone_map THEN None
    ELSE LET zone == h.zone_map[Unwrap(h.settings.zone_id)] IN
         IF IsNone(zone.now_playing) THEN None
         ELSE IF IsNone(Unwrap(zone.now_playing).length) THEN None
         ELSE Some(zone.state = "Playing" /\ Unwrap(Unwrap(zone.now_playing).length) > 0)

\* RoonHandler::play_queue_end
play_queue_end(c) ==
    IF IsNone(c.h.settings.zone_id) \/ IsNone(c.h.queue_end) \/ ~c.h.transport
    THEN Ret(c, None)
    ELSE Ret(Rpc(c, "play_from_here",
                 [zone_id |-> Unwrap(c.h.settings.zone_id),
                  queue_item_id |-> Unwrap(c.h.queue_end).queue_item_id]),
             Some(Unwrap(c.h.queue_end).length))

\* handle_io_event, IoEvent::ZoneSelected with EndPoint::Output: the loop over
\* the zone map from the i-th zone on
RECURSIVE select_output(_, _, _, _)
select_output(c, output_id, zkeys, i) ==
    IF i > Len(zkeys) THEN c
    ELSE LET zone == c.h.zone_map[zkeys[i]] IN
         IF Contains(OutputIds(zone), output_id)
         THEN [Rpc(Tx([c EXCEPT !.h.matched_zones = MapRemove(@, zone.zone_id)],
                      "ZonePresetMatched", None),
                   "ungroup_outputs", OutputIds(zone))
                 EXCEPT !.h.orphaned_output_id = Some(output_id)]
         ELSE select_output(c, output_id, zkeys, i + 1)

\* handle_io_event, IoEvent::ZoneSelected with EndPoint::Zone
select_zone(c, zone_id) ==
    LET c1 == Rpc(c, "subscribe_queue", zone_id)
        c2 == InsertPath(browse_profile(c1), zone_id)
        c3 == IF zone_id \in DOMAIN c2.h.zone_map
              THEN Tx(Tx(c2, "ZonePresetMatched", MapGet(c2.h.matched_zones, zone_id)),
                      "ZoneChanged", c2.h.zone_map[zone_id])
              ELSE c2
    IN  sync_and_save_queue_mode([c3 EXCEPT !.h.settings.zone_id = Some(zone_id)])

\* the reset of the browse option fields at the start of handle_io_event
reset_opts(opts) ==
    [opts EXCEPT !.item_key = None, !.pop_all = FALSE, !.pop_levels = None,
                 !.refresh_list = FALSE]

\* a faulty variant: it lets the intent through without a browse service
BrowseServiceAny(h) == TRUE

\* the browse service is at hand: self.browse.as_ref()?
BrowseService(h) == h.browse

\* RoonHandler::handle_io_event
handle_io_event(c0, ev, ord) ==
    IF ~BrowseService(c0.h) THEN c0
    ELSE
    LET c == [c0 EXCEPT !.h.opts = reset_opts(@)]
        h == c.h
    IN
    CASE ev.kind = "BrowseSelected" ->
            LET profile == get_profile_name(h, ev.arg)
                c1 == IF IsSome(profile) /\ IsSome(h.settings.zone_id)
                      THEN InsertPath(browse_profile(
                                Save([c EXCEPT !.h.settings.profile = profile])),
                                Unwrap(h.settings.zone_id))
                      ELSE c
                c2 == [c1 EXCEPT !.h.opts.item_key = ev.arg,
                                 !.h.opts.zone_or_output_id =
                                     IF IsSome(h.settings.zone_id)
                                        /\ Unwrap(h.settings.zone_id) \in DOMAIN h.zone_map
                                     THEN h.settings.zone_id ELSE None]
            IN  [Rpc(c2, "browse", c2.h.opts) EXCEPT !.h.opts.input = None]
      [] ev.kind = "BrowseBack" ->
            IF ~h.browse_reached_home
            THEN LET c1 == [c EXCEPT !.h.opts.pop_levels = Some(1)]
                 IN  Rpc(c1, "browse", c1.h.opts)
            ELSE c
      [] ev.kind = "BrowseRefresh" ->
            LET c1 == [c EXCEPT !.h.opts.refresh_list = TRUE] IN Rpc(c1, "browse", c1.h.opts)
      [] ev.kind = "BrowseHome" ->
            LET c1 == [c EXCEPT !.h.opts.pop_all = TRUE] IN Rpc(c1, "browse", c1.h.opts)
      [] ev.kind = "BrowseInput" ->
            LET c1 == [c EXCEPT !.h.opts.input = Some(ev.arg)] IN Rpc(c1, "browse", c1.h.opts)
      [] ev.kind = "QueueListLast" -> [c EXCEPT !.h.queue_end = ev.arg]
      [] ev.kind = "QueueSelected" ->
            IF ~h.transport \/ IsNone(h.settings.zone_id) THEN c
            ELSE Rpc(c, "play_from_here", [zone_id |-> Unwrap(h.settings.zone_id),
                                           queue_item_id |-> ev.arg])
      [] ev.kind = "QueueClear" ->
            LET r == play_queue_end(c) IN [r.c EXCEPT !.h.seek_seconds = r.val]
      [] ev.kind = "QueueModeNext" ->
            LET r == select_next_queue_mode(c) IN
            IF IsNone(r.val) THEN r.c
            ELSE LET r2 == set_roon_radio(r.c, Unwrap(r.val) = "RoonRadio") IN
                 IF IsNone(r2.val) THEN Panic(r2.c) ELSE Save(r2.c)
      [] ev.kind = "QueueModeAppend" ->
            IF IsNone(h.settings.zone_id) THEN c
            ELSE InsertPath(handle_queue_mode(c, MapGet(h.zone_map, Unwrap(h.settings.zone_id)),
                                              FALSE),
                            Unwrap(h.settings.zone_id))
      [] ev.kind = "ZoneSelected" ->
            IF ~h.transport THEN c
            ELSE LET c1 == Rpc(c, "unsubscribe_queue", None) IN
                 CASE ev.arg.type = "Output" ->
                        select_output(c1, ev.arg.id, IterKeys(h.zone_map, ord.z), 1)
                   [] ev.arg.type = "Zone" -> select_zone(c1, ev.arg.id)
                   [] OTHER ->
                        IF IsNone(h.settings.presets) THEN c1
                        ELSE IF ev.arg.id \notin DOMAIN Unwrap(h.settings.presets) THEN c1
                        ELSE LET preset == Unwrap(h.settings.presets)[ev.arg.id] IN
                             set_grouping(c1, [i \in 1..Len(preset) |-> preset[i][1]], ord)
      [] ev.kind = "ZoneGroupReq" ->
            IF ~h.transport THEN c ELSE Rpc(c, "get_outputs", None)
      [] ev.kind = "ZoneGrouped" -> set_grouping(c, ev.arg, ord)
      [] ev.kind = "ZoneSavePreset" ->
            IF Len(ev.arg.output_ids) = 0 THEN Panic(c)
            ELSE LET output_ids == SortTail(ev.arg.output_ids)
                     preset == [i \in 1..Len(output_ids) |-> <<output_ids[i], None>>]
                     presets == IF IsNone(h.settings.presets) THEN EmptyMap
                                ELSE Unwrap(h.settings.presets)
                 IN  set_grouping(
                         Save([c EXCEPT !.h.settings.presets =
                                  Some(MapInsert(presets, ev.arg.name, preset))]),
                         output_ids, ord)
      [] ev.kind = "ZoneDeletePreset" ->
            IF IsNone(h.settings.presets) THEN c
            ELSE send_zone_list(
                    Save([c EXCEPT !.h.settings.presets = Some(MapRemove(Unwrap(@), ev.arg))]),
                    ord)
      [] ev.kind = "ZoneMatchPreset" ->
            IF Len(ev.arg) = 0 THEN Panic(c)
            ELSE Tx(c, "ZonePresetMatched", match_preset(h.settings.presets, ord.p, ev.arg))
      [] ev.kind = "Control" ->
            IF IsNone(h.settings.zone_id) THEN c
            ELSE IF Unwrap(h.settings.zone_id) \notin DOMAIN h.zone_map THEN c
            ELSE LET zone_id == Unwrap(h.settings.zone_id) zone == h.zone_map[zone_id] IN
                 IF IsSome(zone.now_playing) THEN control(c, zone_id, ev.arg)
                 ELSE IF ev.arg = "PlayPause"
                 THEN InsertPath(handle_queue_mode(c, Some(zone), TRUE), zone_id)
                 ELSE c
      [] ev.kind = "PauseOnTrackEndReq" ->
            LET req == handle_pause_on_track_end_req(h)
                active == IF IsSome(req) THEN Unwrap(req) ELSE FALSE
            IN  Tx([c EXCEPT !.h.pause_on_track_end = active], "PauseOnTrackEndActive", active)
      \* Mute, ChangeVolume, Repeat and Shuffle only forward a request
      [] OTHER -> c

(***************************************************************************)
(* The state after construction.                                           *)
(***************************************************************************)
\* capacity of the two channels between the UI and the handler
ChannelCapacity == 10

SettingsDefault ==
    [zone_id |-> None, profile |-> None, queue_modes |-> None, presets |-> None]

\* RoonHandler::new with the settings read from the configuration file
HandlerNew(settings) ==
    [ settings |-> settings, browse |-> FALSE, transport |-> FALSE,
      zone_map |-> EmptyMap, zone_output_ids |-> None, orphaned_output_id |-> None,
      matched_zones |-> EmptyMap, pause_on_track_end |-> FALSE,
      browse_reached_home |-> FALSE, browse_paths |-> EmptyMap, profiles |-> None,
      queue_end |-> None, seek_seconds |-> None,
      opts |-> [BrowseOptsDefault EXCEPT !.multi_session_key = Some(TUI_BROWSE)] ]

\* the supervisor waits in join_next for the tasks of a live connection; the
\* handler task it spawned holds the lock of the intent receiver and waits in select!
\* no task is in the middle of sending
NoHold == [app |-> <<>>, handler |-> <<>>]

SupJoined == [pc |-> "join", lib |-> TRUE, handlers |-> {1}, gen |-> 1, lock |-> 1]

\* the handler task created last is alive and holds the lock of from_app
HandlerRuns == sup.gen \in sup.handlers /\ sup.lock = sup.gen

\* a panic ends the handler task; unwinding drops its MutexGuard
TaskEnded(s) ==
    [s EXCEPT !.handlers = @ \ {s.gen}, !.lock = IF @ = s.gen THEN 0 ELSE @]

QLogInit ==
    [op |-> "none", batches |-> 0, status |-> "ok", expect_len |-> 0, valid |-> FALSE,
     pre_label |-> None]

HLogInit == [kind |-> "none", arg |-> None, zone_id |-> None, realized |-> FALSE]

InitWith(SettingsSet, logging) ==
    /\ disk \in SettingsSet
    /\ handler = HandlerNew(disk)
    /\ app = AppInit
    /\ to_app = <<>>
    /\ to_roon = <<>>
    /\ core_rx = <<>>
    /\ sent = <<>>
    /\ panicked = {}
    /\ server = "absent"
    /\ flow = [on |-> logging, issued |-> <<>>, handled |-> <<>>]
    /\ hlog = HLogInit
    /\ qlog = QLogInit
    /\ script_log = EmptyMap
    /\ sup = SupJoined
    /\ hold = NoHold

(***************************************************************************)
(* What a batch of diffs inserts and removes, counted from the batch alone. *)
(***************************************************************************)
RECURSIVE BatchInserted(_)
BatchInserted(changes) ==
    IF Len(changes) = 0 THEN 0
    ELSE (IF Head(changes).operation = "Insert" /\ IsSome(Head(changes).items)
          THEN Len(Unwrap(Head(changes).items)) ELSE 0) + BatchInserted(Tail(changes))

RECURSIVE BatchRemoved(_)
BatchRemoved(changes) ==
    IF Len(changes) = 0 THEN 0
    ELSE (IF Head(changes).operation = "Remove" /\ IsSome(Head(changes).count)
          THEN Unwrap(Head(changes).count) ELSE 0) + BatchRemoved(Tail(changes))

\* every diff is complete and names indices inside a queue of the length that
\* the diffs before it leave
RECURSIVE BatchValid(_, _)
BatchValid(len, changes) ==
    IF Len(changes) = 0 THEN TRUE
    ELSE LET ch == Head(changes) IN
         IF ch.operation = "Insert"
         THEN IsSome(ch.items) /\ ch.index <= len
              /\ BatchValid(len + Len(Unwrap(ch.items)), Tail(changes))
         ELSE IsSome(ch.count) /\ ch.index + Unwrap(ch.count) <= len
              /\ BatchValid(len - Unwrap(ch.count), Tail(changes))

\* the record of the event ev handled in UI state a with result r
QLogOf(a, ev, r) ==
    IF ev.kind = "QueueList"
    THEN [QLogInit EXCEPT !.op = "list"]
    ELSE IF ev.kind = "QueueListChanges"
    THEN LET pre_len == IF IsSome(a.queue_items) THEN Len(Unwrap(a.queue_items)) ELSE 0 IN
         [op |-> "changes", batches |-> qlog.batches + 1, status |-> r.status,
          expect_len |-> pre_len + BatchInserted(ev.arg) - BatchRemoved(ev.arg),
          valid |-> IsSome(a.queue_items) /\ BatchValid(pre_len, ev.arg),
          pre_label |-> get_queue_select_string(a)]
    ELSE [QLogInit EXCEPT !.op = "other", !.batches = qlog.batches]

(***************************************************************************)
(* The channels.  Receiver::recv hands out the item sent first.            *)
(***************************************************************************)
\* a faulty variant: it hands out the item sent last
ChanRecvLast(ch) == [item |-> ch[Len(ch)], rest |-> SubSeq(ch, 1, Len(ch) - 1)]

ChanRecv(ch) == [item |-> Head(ch), rest |-> Tail(ch)]

\* most items the environment keeps waiting in a channel
MaxPending == 2
\* most items the environment sends while the order of handling is recorded
MaxLog == 5

\* the items of source src, in the order of the log
OfSource(log, src) == SelectSeq(log, LAMBDA e : e.src = src)
Logged(src, items) == [i \in 1..Len(items) |-> [src |-> src, item |-> items[i]]]
Issue(src, items) ==
    IF flow.on THEN [flow EXCEPT !.issued = @ \o Logged(src, items)] ELSE flow
Handled(src, item) ==
    IF flow.on THEN [flow EXCEPT !.handled = Append(@, [src |-> src, item |-> item])]
    ELSE flow
\* the environment may send: nothing is under way, or the order is recorded
\* and the channel and the log have room
MaySend(ch) ==
    IF flow.on THEN Len(ch) < MaxPending /\ Len(flow.issued) < MaxLog
    ELSE core_rx = <<>> /\ to_app = <<>> /\ to_roon = <<>>

(***************************************************************************)
(* The UI task: one step of start_ui's loop takes the next event.          *)
(***************************************************************************)
AppOn(kind) ==
    /\ "app" \notin panicked
    /\ to_app # <<>>
    /\ ChanRecv(to_app).item.kind = kind
    /\ LET ev == ChanRecv(to_app).item
           r == update_on_event(app, ev)
       IN  /\ Len(to_roon) + Len(r.out) <= ChannelCapacity
           /\ app' = r.app
           /\ to_roon' = to_roon \o r.out
           /\ panicked' = IF r.status = "panic" THEN panicked \cup {"app"} ELSE panicked
           /\ qlog' = QLogOf(app, ev, r)
           /\ flow' = Issue("app", r.out)
    /\ to_app' = ChanRecv(to_app).rest
    /\ UNCHANGED <<handler, core_rx, sent, disk, server, hlog, script_log, sup, hold>>

AppOnInput == AppOn("Input")
AppOnBrowseTitle == AppOn("BrowseTitle")
AppOnBrowseList == AppOn("BrowseList")
AppOnQueueList == AppOn("QueueList")
AppOnQueueListChanges == AppOn("QueueListChanges")
AppOnZones == AppOn("Zones")
AppOnZoneSelect == AppOn("ZoneSelect")
AppOnZoneChanged == AppOn("ZoneChanged")
AppOnZoneRemoved == AppOn("ZoneRemoved")
\* the events that set display fields only
AppDisplayKinds ==
    {"CoreName", "QueueModeCurrent", "ZoneSeek", "ZonePresetMatched", "PauseOnTrackEndActive"}
AppOnDisplay == \E kind \in AppDisplayKinds : AppOn(kind)

\* a key press reaches the UI through the channel it shares with the handler
KeyPress(key) ==
    /\ MaySend(to_app)
    /\ Len(to_app) < ChannelCapacity
    /\ to_app' = Append(to_app, Msg("Input", key))
    /\ UNCHANGED <<app, handler, to_roon, core_rx, sent, disk, panicked, server, flow,
                   hlog, qlog, script_log, sup, hold>>

\* the grouping view of the UI sends an intent for the outputs the user ticked
GroupingIntent(ev) ==
    /\ "app" \notin panicked
    /\ MaySend(to_roon)
    /\ Len(to_roon) < ChannelCapacity
    /\ to_roon' = Append(to_roon, ev)
    /\ flow' = Issue("app", <<ev>>)
    /\ UNCHANGED <<app, handler, to_app, core_rx, sent, disk, panicked, server, hlog,
                   qlog, script_log, sup, hold>>

(***************************************************************************)
(* The handler task: one round of the select loop takes one item from the  *)
(* server or from the UI and handles it to completion.                     *)
(***************************************************************************)
\* an item of the server channel: a core event and, maybe, a parsed message
CoreItem(core, msg) == [core |-> core, msg |-> msg]
ItemKind(item) == IF IsSome(item.msg) THEN Unwrap(item.msg).kind ELSE item.core

\* the orders in which the maps of handler h may be visited while it handles an
\* item of this kind: a zone push adds keys, a map of one key has one order
OrdSet(h, kind) ==
    [z : IF kind = "Zones" \/ Cardinality(DOMAIN h.zone_map) > 1
         THEN Orders(ZoneIdSet) ELSE {ZoneIdSeq},
     p : IF IsSome(h.settings.presets) /\ Cardinality(DOMAIN Unwrap(h.settings.presets)) > 1
         THEN Orders(PresetNameSet) ELSE {PresetNameSeq}]
\* the kinds of items whose handling iterates a map
OrderedKinds ==
    {"Zones", "ZonesRemoved", "ZoneSelected", "ZoneGrouped", "ZoneSavePreset",
     "ZoneDeletePreset", "ZoneMatchPreset"}
OrdsFor(kind) ==
    IF kind \in OrderedKinds THEN OrdSet(handler, kind)
    ELSE {[z |-> ZoneIdSeq, p |-> PresetNameSeq]}

\* the runs of the scripts after the steps a handler call made
RECURSIVE ScriptLog(_, _)
ScriptLog(log, trace) ==
    IF Len(trace) = 0 THEN log
    ELSE LET e == Head(trace)
             log1 ==
                 IF e.what = "start"
                 THEN MapInsert(log, e.key, [k |-> e.len, consumed |-> 0, issued |-> 0,
                                             matching |-> TRUE])
                 ELSE IF e.key \in DOMAIN log
                 THEN [log EXCEPT ![e.key] =
                          [@ EXCEPT !.consumed = @ + 1,
                                    !.issued = @ + (IF e.issued THEN 1 ELSE 0),
                                    !.matching = @ /\ e.matched]]
                 ELSE log
         IN  ScriptLog(log1, Tail(trace))

\* the target is the output list of a live zone: same length, same first id,
\* same members
Realizes(zone, ids) ==
    /\ Len(ids) = Len(zone.outputs)
    /\ Len(ids) > 0
    /\ ids[1] = zone.outputs[1].output_id
    /\ {ids[i] : i \in 1..Len(ids)} = {zone.outputs[i].output_id : i \in 1..Len(zone.outputs)}

\* the kinds of items whose argument the record of the last step keeps
LoggedKinds == {"ZoneSelected", "ZoneGrouped", "BrowseResult", "ZoneMatchPreset"}
HLogOf(h, kind, arg) ==
    [kind |-> kind,
     arg |-> IF kind \in LoggedKinds THEN Some(arg) ELSE None,
     zone_id |-> h.settings.zone_id,
     realized |-> kind = "ZoneGrouped"
                    /\ \E z \in DOMAIN h.zone_map : Realizes(h.zone_map[z], arg)]

\* the effects of a finished (or aborted) handler call
HandlerCommit(c) ==
    /\ Len(to_app) + Len(c.tx) <= ChannelCapacity
    /\ handler' = c.h
    /\ to_app' = to_app \o c.tx
    /\ sent' = c.rpc
    /\ disk' = IF IsSome(c.saved) THEN Unwrap(c.saved) ELSE disk
    /\ script_log' = ScriptLog(script_log, c.trace)
    /\ panicked' = IF c.status = "panic" THEN panicked \cup {"handler"} ELSE panicked
    /\ sup' = IF c.status = "panic" THEN TaskEnded(sup) ELSE sup

\* the first arm of select!: the core event, then the message if there is one
handle_core_item(h, item, ord, draw) ==
    LET c1 == handle_core_event(Ctx(h), [kind |-> item.core]) IN
    IF IsSome(item.msg) THEN handle_msg_event(c1, Unwrap(item.msg), ord, draw) ELSE c1

HandlerOnServer(kind) ==
    /\ HandlerRuns
    /\ core_rx # <<>>
    /\ ItemKind(ChanRecv(core_rx).item) = kind
    /\ LET item == ChanRecv(core_rx).item
           ev == IF IsSome(item.msg) THEN Unwrap(item.msg) ELSE Msg(item.core, None)
       IN  /\ \E ord \in OrdsFor(kind), draw \in Draws(ev) :
                HandlerCommit(handle_core_item(handler, item, ord, draw))
           /\ hlog' = HLogOf(handler, kind, ev.arg)
           /\ flow' = Handled("core", item)
    /\ core_rx' = ChanRecv(core_rx).rest
    /\ UNCHANGED <<app, to_roon, server, qlog, hold>>

\* the second arm of select!
HandlerOnIntent(kind) ==
    /\ HandlerRuns
    /\ to_roon # <<>>
    /\ ChanRecv(to_roon).item.kind = kind
    /\ LET ev == ChanRecv(to_roon).item IN
           /\ \E ord \in OrdsFor(kind) : HandlerCommit(handle_io_event(Ctx(handler), ev, ord))
           /\ hlog' = HLogOf(handler, kind, ev.arg)
           /\ flow' = Handled("app", ev)
    /\ to_roon' = ChanRecv(to_roon).rest
    /\ UNCHANGED <<app, core_rx, server, qlog, hold>>

HandlerOnFound == HandlerOnServer("Found")
HandlerOnLost == HandlerOnServer("Lost")
HandlerOnZones == HandlerOnServer("Zones")
HandlerOnZonesRemoved == HandlerOnServer("ZonesRemoved")
HandlerOnQueue == HandlerOnServer("Queue")
HandlerOnQueueChanges == HandlerOnServer("QueueChanges")
HandlerOnBrowseResult == HandlerOnServer("BrowseResult")
HandlerOnLoadResult == HandlerOnServer("LoadResult")

HandlerOnBrowseSelected == HandlerOnIntent("BrowseSelected")
HandlerOnBrowseBack == HandlerOnIntent("BrowseBack")
HandlerOnBrowseRefresh == HandlerOnIntent("BrowseRefresh")
HandlerOnBrowseHome == HandlerOnIntent("BrowseHome")
HandlerOnQueueListLast == HandlerOnIntent("QueueListLast")
HandlerOnQueueSelected == HandlerOnIntent("QueueSelected")
HandlerOnQueueModeAppend == HandlerOnIntent("QueueModeAppend")
HandlerOnZoneSelected == HandlerOnIntent("ZoneSelected")
HandlerOnZoneGrouped == HandlerOnIntent("ZoneGrouped")
HandlerOnZoneMatchPreset == HandlerOnIntent("ZoneMatchPreset")
HandlerOnZoneSavePreset == HandlerOnIntent("ZoneSavePreset")

(***************************************************************************)
(* The server: what it sends to the handler.                               *)
(***************************************************************************)
ServerSend(item) ==
    /\ sup.lib
    /\ MaySend(core_rx)
    /\ core_rx' = Append(core_rx, item)
    /\ flow' = Issue("core", <<item>>)

\* the extension is paired: CoreEvent::Found
CoreFound ==
    /\ server # "paired"
    /\ ServerSend(CoreItem("Found", None))
    /\ server' = "paired"
    /\ UNCHANGED <<app, handler, to_app, to_roon, sent, disk, panicked, hlog, qlog,
                   script_log, sup, hold>>

\* the pairing ends: CoreEvent::Lost
CoreLost ==
    /\ server = "paired"
    /\ ServerSend(CoreItem("Lost", None))
    /\ server' = "lost"
    /\ UNCHANGED <<app, handler, to_app, to_roon, sent, disk, panicked, hlog, qlog,
                   script_log, sup, hold>>

\* a message of a subscription or the answer to a request
ServerPush(msg) ==
    /\ server = "paired"
    /\ ServerSend(CoreItem("None", Some(msg)))
    /\ UNCHANGED <<app, handler, to_app, to_roon, sent, disk, panicked, server, hlog,
                   qlog, script_log, sup, hold>>

(***************************************************************************)
(* The queue: snapshots and diff batches of the queue subscription.        *)
(***************************************************************************)
\* most diff batches the server sends for one snapshot
MaxBatches == 1

\* the snapshots: the items in the order of their ids
Queues ==
    {q \in UNION {[1..n -> QueueItems] : n \in 0..MaxQueueLen} :
        \A i \in 1..(Len(q) - 1) : q[i].queue_item_id < q[i + 1].queue_item_id}
Batches == SeqsOf(QueueChanges, BatchLens)

\* the list of the primary session that opens the UI
HomeList == [title |-> "Explore", count |-> 0, level |-> 0, display_offset |-> None]
BrowseListResult(list, key) ==
    [action |-> "List", list |-> Some(list), is_error |-> None, message |-> None,
     key |-> Some(key)]

ServerHomeList ==
    /\ server = "paired"
    /\ ServerPush(Msg("BrowseResult", BrowseListResult(HomeList, TUI_BROWSE)))

ServerQueue ==
    /\ server = "paired"
    /\ \E items \in Queues : ServerPush(Msg("Queue", items))

\* a batch for the snapshot the UI holds that leaves a queue within the bound
ServerQueueChanges ==
    /\ server = "paired"
    /\ MaySend(core_rx)
    /\ IsSome(app.queue_items)
    /\ qlog.batches < MaxBatches
    /\ \E changes \in Batches :
        /\ Len(ApplyChanges(Unwrap(app.queue_items), changes, 1).queue) <= MaxQueueLen
        /\ ServerPush(Msg("QueueChanges", changes))

QueueKeys == {"Tab", "Down"}
QueueKeyPress == \E key \in QueueKeys : KeyPress(key)

InitQueue == InitWith({SettingsDefault}, FALSE)

NextQueue ==
    \/ CoreFound
    \/ ServerHomeList
    \/ ServerQueue
    \/ ServerQueueChanges
    \/ QueueKeyPress
    \/ HandlerOnFound
    \/ HandlerOnBrowseResult
    \/ HandlerOnQueue
    \/ HandlerOnQueueChanges
    \/ HandlerOnQueueListLast
    \/ AppOnDisplay
    \/ AppOnBrowseTitle
    \/ AppOnInput
    \/ AppOnQueueList
    \/ AppOnQueueListChanges

SpecQueue == InitQueue /\ [][NextQueue]_vars

\* the batch the UI applied last ran to its end
BatchApplied == qlog.op = "changes" /\ qlog.status = "ok"
\* the rows of the queue that show the display line selected before the batch
LabelRows ==
    IF IsSome(app.queue_items) /\ IsSome(qlog.pre_label)
    THEN {i \in 1..Len(Unwrap(app.queue_items)) :
            Unwrap(app.queue_items)[i].line1 = Unwrap(qlog.pre_label)}
    ELSE {}

\* C1: after a batch of diffs whose indices are valid at the moment each diff
\* is applied, the queue length is the initial length plus the number of
\* inserted items minus the number of removed items
C1_QueueLength ==
    (qlog.op = "changes" /\ qlog.valid) =>
        /\ qlog.status = "ok"
        /\ IsSome(app.queue_items)
        /\ Len(Unwrap(app.queue_items)) = qlog.expect_len

\* a valid batch of two diffs was applied to a queue and left two items
C1_Witness ==
    /\ qlog.op = "changes" /\ qlog.valid
    /\ qlog.expect_len = 2
    /\ IsSome(app.queue_items) /\ Len(Unwrap(app.queue_items)) = 2

\* C2: after a batch, when the queue holds an item with the display line of
\* the item selected before the batch, the selection is the first such item
C2_SelectionPreserved ==
    (BatchApplied /\ LabelRows # {}) =>
        /\ IsSome(app.queue_selected)
        /\ Unwrap(app.queue_selected) + 1 \in LabelRows
        /\ \A i \in LabelRows : Unwrap(app.queue_selected) + 1 <= i

\* [A,B,C] with B selected and the first item removed: [B,C] with B selected
C2_Witness ==
    /\ BatchApplied
    /\ qlog.pre_label = Some("B")
    /\ IsSome(app.queue_items)
    /\ [i \in 1..Len(Unwrap(app.queue_items)) |-> Unwrap(app.queue_items)[i].line1]
          = <<"B", "C">>
    /\ qlog.expect_len = 2
    /\ app.queue_selected = Some(0)

\* C3 as stated: after a batch applied while an item was selected, when no
\* item of the queue has the display line of that item, no item is selected
C3_SelectionCleared ==
    (BatchApplied /\ IsSome(qlog.pre_label) /\ LabelRows = {}) =>
        IsNone(app.queue_selected)

\* C3 as the code has it: after a batch applied while an item was selected,
\* when no item of the queue has the display line of that item, the first
\* row is selected
C3_SelectionFirstRow ==
    (BatchApplied /\ IsSome(qlog.pre_label) /\ LabelRows = {}) =>
        app.queue_selected = Some(0)

\* the selected item was removed and others are left
C3_Witness ==
    /\ BatchApplied
    /\ qlog.pre_label = Some("B")
    /\ LabelRows = {}
    /\ IsSome(app.queue_items) /\ Len(Unwrap(app.queue_items)) = 2

(***************************************************************************)
(* Presets: the grouping view saves a preset and asks for the preset that  *)
(* matches the outputs the user ticked.                                    *)
(***************************************************************************)
\* the lists of ticked outputs: each output once
TickedLists(S, lens) ==
    {ids \in SeqsOf(S, lens) : \A i, j \in 1..Len(ids) : i # j => ids[i] # ids[j]}

MatchPreset ==
    /\ "app" \notin panicked
    /\ \E ids \in TickedLists(OutputIdSet, {2, 3}) : GroupingIntent(Msg("ZoneMatchPreset", ids))

\* a preset as IoEvent::ZoneSavePreset stores it
StoredPreset(ids) == [i \in 1..Len(ids) |-> <<SortTail(ids)[i], None>>]
\* the preset tables an earlier run may have left in the configuration file
PresetTables ==
    {Some(EmptyMap)} \cup
    {Some(MapInsert(EmptyMap, "P1", StoredPreset(ids))) :
        ids \in TickedLists(OutputIdSet, {2, 3})} \cup
    {Some(MapInsert(MapInsert(EmptyMap, "P1", StoredPreset(ids1)), "P2", StoredPreset(ids2))) :
        ids1 \in TickedLists(OutputIdSet, {2, 3}), ids2 \in TickedLists(OutputIdSet, {3})}

InitPreset ==
    InitWith({[SettingsDefault EXCEPT !.presets = t] : t \in {None} \cup PresetTables}, FALSE)

NextPreset ==
    \/ CoreFound
    \/ MatchPreset
    \/ HandlerOnFound
    \/ HandlerOnZoneMatchPreset
    \/ AppOnDisplay

SpecPreset == InitPreset /\ [][NextPreset]_vars

\* the id lists match_preset may be handed
IdLists == SeqsOf(OutputIdSet, {1, 2, 3})
\* the lists that hold the ids of p in another order, the first id in place
TailOrders(p) ==
    {[i \in 1..Len(p) |-> p[f[i]]] :
        f \in {g \in [1..Len(p) -> 1..Len(p)] :
                  g[1] = 1 /\ \A i, j \in 1..Len(p) : i # j => g[i] # g[j]}}

\* C4: for the stored preset table and a fixed first id, match_preset gives
\* the same result for every order of the remaining ids
C4_PermutationInvariant ==
    \A ord \in Orders(PresetNameSet) : \A p \in IdLists : \A q \in TailOrders(p) :
        match_preset(handler.settings.presets, ord, p)
            = match_preset(handler.settings.presets, ord, q)

\* the handler matched a list of three ids, its tail out of order, to a preset
C4_Witness ==
    /\ hlog.kind = "ZoneMatchPreset"
    /\ hlog.arg = Some(<<"o1", "o3", "o2">>)
    /\ \E i \in 1..Len(to_app) :
          to_app[i].kind = "ZonePresetMatched" /\ to_app[i].arg = Some("P1")
    /\ match_preset(handler.settings.presets, PresetNameSeq, <<"o1", "o2", "o3">>) = Some("P1")

(***************************************************************************)
(* Zones: the pushes of the zone subscription and the grouping intents.    *)
(***************************************************************************)
\* roon_api::transport::Output and Zone
OutputOf(id) ==
    [output_id |-> id,
     display_name |-> CASE id = "o1" -> "Den" [] id = "o2" -> "Hall" [] OTHER -> "Loft"]
ZoneOf(id, output_ids, name) ==
    [zone_id |-> id, display_name |-> name,
     outputs |-> [i \in 1..Len(output_ids) |-> OutputOf(output_ids[i])],
     state |-> "Stopped", now_playing |-> None, auto_radio |-> FALSE]

\* the zones the server knows: two single outputs and their group
ZoneZ1 == ZoneOf("z1", <<"o1">>, "Den")
ZoneZ2 == ZoneOf("z2", <<"o2">>, "Hall")
ZoneZ3 == ZoneOf("z3", <<"o1", "o2">>, "Loft")
\* the zone lists of one push: no output is in two zones of a push
ZonePushes == {<<ZoneZ1>>, <<ZoneZ2>>, <<ZoneZ3>>, <<ZoneZ1, ZoneZ2>>}

ServerZones ==
    /\ server = "paired"
    /\ \E zones \in ZonePushes : ServerPush(Msg("Zones", zones))

\* the server withdraws zones the handler holds
ServerZonesRemoved ==
    \E zone_ids \in {<<"z1">>, <<"z2">>, <<"z3">>} :
        /\ \A i \in 1..Len(zone_ids) : zone_ids[i] \in DOMAIN handler.zone_map
        /\ ServerPush(Msg("ZonesRemoved", zone_ids))

\* the outputs the user ticks in the grouping view
GroupOutputs == {"o1", "o2"}
GroupZones ==
    /\ "app" \notin panicked
    /\ \E ids \in TickedLists(GroupOutputs, {1, 2}) : GroupingIntent(Msg("ZoneGrouped", ids))

InitGrouping ==
    InitWith({SettingsDefault, [SettingsDefault EXCEPT !.zone_id = Some("z1")]}, FALSE)

NextGrouping ==
    \/ CoreFound
    \/ ServerZones
    \/ ServerZonesRemoved
    \/ GroupZones
    \/ HandlerOnFound
    \/ HandlerOnZones
    \/ HandlerOnZonesRemoved
    \/ HandlerOnZoneGrouped
    \/ AppOnDisplay
    \/ AppOnZones
    \/ AppOnZoneChanged
    \/ AppOnZoneRemoved

SpecGrouping == InitGrouping /\ [][NextGrouping]_vars

\* the grouping commands among the requests of the last handler step
GroupingCommands ==
    {i \in 1..Len(sent) : sent[i].op \in {"group_outputs", "ungroup_outputs"}}

\* C5: when the target id list equals the output list of a live zone (same
\* length, same first id, same members), update_grouping issues no group and
\* no ungroup command and returns no pending target, the first time and any
\* time it is invoked again with the same target
C5_NoCommandWhenRealized ==
    (hlog.kind = "ZoneGrouped" /\ hlog.realized) =>
        /\ GroupingCommands = {}
        /\ IsNone(handler.zone_output_ids)

\* a target that a live zone realizes was handled without a command
C5_Witness ==
    /\ hlog.kind = "ZoneGrouped" /\ hlog.realized
    /\ hlog.arg = Some(<<"o1", "o2">>)
    /\ GroupingCommands = {}
    /\ IsNone(handler.zone_output_ids)

(***************************************************************************)
(* Browsing: the primary session of the UI and the scripted sessions.      *)
(***************************************************************************)
\* largest item count a list of the server reports
MaxCount == 2

ProfileName == "Kim"
\* the settings an earlier run may have left: nothing, or a selected zone with
\* a profile and a random queue mode for its output
BrowseSettings ==
    {SettingsDefault} \cup
    {[zone_id |-> Some("z1"), profile |-> Some(ProfileName),
      queue_modes |-> Some(MapInsert(EmptyMap, "o1", mode)), presets |-> None] :
        mode \in {"RandomAlbum", "RandomTrack"}}

BrowseItem(title, item_key) == [title |-> title, item_key |-> item_key]
LoadResultOf(items, offset, title, count, level, key) ==
    [items |-> items, offset |-> offset,
     list |-> [title |-> title, count |-> count, level |-> level], key |-> Some(key)]

\* the lists of a scripted session: the server reports a title and a count
ServerScriptList ==
    /\ server = "paired"
    /\ \E title \in {"Albums", "Tracks", "Library"}, count \in 0..MaxCount :
           ServerPush(Msg("BrowseResult",
               BrowseListResult([title |-> title, count |-> count, level |-> 1,
                                 display_offset |-> None], "z1")))

\* the titles of the items a scripted session is shown
ScriptTitles ==
    {"Library", "Albums", "Tracks", "Play Album", "Queue", "Settings", "Profile", ProfileName}
ServerScriptLoad ==
    /\ server = "paired"
    /\ \E title \in ScriptTitles, list_title \in {"Profile", "Library"} :
           ServerPush(Msg("LoadResult",
               LoadResultOf(<<BrowseItem(title, Some("k2"))>>, 0, list_title, 1, 1, "z1")))

\* the items of the primary session: one item, at the root or a level below
ServerHomeLoad ==
    /\ server = "paired"
    /\ \E level \in {0, 1} :
           ServerPush(Msg("LoadResult",
               LoadResultOf(<<BrowseItem("Artists", Some("k1"))>>, 0, "Explore", 1, level,
                            TUI_BROWSE)))

ServerZoneOne ==
    /\ server = "paired"
    /\ ServerPush(Msg("Zones", <<ZoneZ1>>))

BrowseKeys == {"Enter", "Esc", "F5", "Ctrl-Home", "Ctrl-a"}
BrowseKeyPress == \E key \in BrowseKeys : KeyPress(key)

InitBrowse == InitWith(BrowseSettings, FALSE)

NextBrowse ==
    \/ CoreFound
    \/ CoreLost
    \/ ServerHomeList
    \/ ServerHomeLoad
    \/ ServerZoneOne
    \/ ServerScriptList
    \/ ServerScriptLoad
    \/ BrowseKeyPress
    \/ HandlerOnFound
    \/ HandlerOnLost
    \/ HandlerOnZones
    \/ HandlerOnBrowseResult
    \/ HandlerOnLoadResult
    \/ HandlerOnBrowseSelected
    \/ HandlerOnBrowseBack
    \/ HandlerOnBrowseRefresh
    \/ HandlerOnBrowseHome
    \/ HandlerOnQueueModeAppend
    \/ AppOnDisplay
    \/ AppOnInput
    \/ AppOnBrowseTitle
    \/ AppOnBrowseList
    \/ AppOnZones
    \/ AppOnZoneChanged

SpecBrowse == InitBrowse /\ [][NextBrowse]_vars

\* the last item handled was a list of a scripted session to draw from
RandomList ==
    /\ hlog.kind = "BrowseResult"
    /\ Unwrap(hlog.arg).action = "List"
    /\ Unwrap(hlog.arg).key # Some(TUI_BROWSE)
    /\ Unwrap(Unwrap(hlog.arg).list).title \in {"Albums", "Tracks"}
LoadRequests == {i \in 1..Len(sent) : sent[i].op = "load"}

\* C6: for every list of a scripted session titled Albums or Tracks, with any
\* item count N the server reports, exactly one load request is issued; it
\* asks for one item at an offset from 0 up to but not including N
C6_RandomOffsetInRange ==
    RandomList =>
        /\ Cardinality(LoadRequests) = 1
        /\ \A i \in LoadRequests :
              /\ sent[i].arg.count = Some(1)
              /\ 0 <= sent[i].arg.offset
              /\ sent[i].arg.offset < Unwrap(Unwrap(hlog.arg).list).count
              /\ sent[i].arg.multi_session_key = Unwrap(hlog.arg).key

\* a list of two albums was answered with a request for the second
C6_Witness ==
    /\ RandomList
    /\ Unwrap(Unwrap(hlog.arg).list).count = 2
    /\ \E i \in LoadRequests : sent[i].arg.offset = 1 /\ sent[i].arg.count = Some(1)

\* C7: a script of k entries issues one browse-into request per Load response
\* of its session key, k in all, and is removed from the session table when
\* its k-th entry is consumed, whenever every response holds the item looked for
C7_ScriptDrained ==
    \A key \in DOMAIN script_log :
        LET run == script_log[key] IN
        run.matching =>
            /\ run.issued = run.consumed
            /\ run.consumed <= run.k
            /\ IF run.consumed = run.k THEN key \notin DOMAIN handler.browse_paths
               ELSE /\ key \in DOMAIN handler.browse_paths
                    /\ Len(handler.browse_paths[key]) = run.k - run.consumed

\* a script of five entries was drained by five matching responses
C7_Witness ==
    /\ "z1" \in DOMAIN script_log
    /\ script_log["z1"] = [k |-> 5, consumed |-> 5, issued |-> 5, matching |-> TRUE]
    /\ "z1" \notin DOMAIN handler.browse_paths

\* the option fields of a browse request that are populated
Populated(opts) ==
    (IF IsSome(opts.item_key) THEN 1 ELSE 0) + (IF opts.pop_all THEN 1 ELSE 0)
        + (IF IsSome(opts.pop_levels) THEN 1 ELSE 0) + (IF opts.refresh_list THEN 1 ELSE 0)
PrimaryRequests ==
    {i \in 1..Len(sent) :
        sent[i].op = "browse" /\ sent[i].arg.multi_session_key = Some(TUI_BROWSE)}

\* C10: in every browse request of the primary session at most one of
\* item_key, pop_all, pop_levels and refresh_list is populated, whatever user
\* intents and server events, core-found events among them, came before
C10_OneOptionPopulated == \A i \in PrimaryRequests : Populated(sent[i].arg) <= 1

\* a request of the primary session that selects an item and nothing else
C10_Witness ==
    \E i \in PrimaryRequests : IsSome(sent[i].arg.item_key) /\ Populated(sent[i].arg) = 1

(***************************************************************************)
(* Zone selection: an item is chosen before a zone is, the server answers  *)
(* that the zone is not configured, and the user picks one.                *)
(***************************************************************************)
\* the zone an earlier run selected, if any, is not the one picked now
SelectSettings == {SettingsDefault, [SettingsDefault EXCEPT !.zone_id = Some("z2")]}

NotConfigured ==
    [action |-> "Message", list |-> None, is_error |-> Some(TRUE),
     message |-> Some("Zone is not configured"), key |-> Some(TUI_BROWSE)]
ServerNotConfigured ==
    /\ server = "paired"
    /\ ServerPush(Msg("BrowseResult", NotConfigured))

ServerZonesOneOrTwo ==
    /\ server = "paired"
    /\ \E zones \in {<<ZoneZ1>>, <<ZoneZ1, ZoneZ2>>} : ServerPush(Msg("Zones", zones))

SelectKeyPress == KeyPress("Enter")

InitSelect == InitWith(SelectSettings, FALSE)

NextSelect ==
    \/ CoreFound
    \/ ServerHomeList
    \/ ServerHomeLoad
    \/ ServerZonesOneOrTwo
    \/ ServerNotConfigured
    \/ SelectKeyPress
    \/ HandlerOnFound
    \/ HandlerOnZones
    \/ HandlerOnBrowseResult
    \/ HandlerOnLoadResult
    \/ HandlerOnBrowseSelected
    \/ HandlerOnZoneSelected
    \/ AppOnDisplay
    \/ AppOnInput
    \/ AppOnBrowseTitle
    \/ AppOnBrowseList
    \/ AppOnZones
    \/ AppOnZoneSelect
    \/ AppOnZoneChanged

SpecSelect == InitSelect /\ [][NextSelect]_vars

\* the handler has just handled ZoneSelected(Zone z1) and the UI still holds
\* the item key it saved
SelectedWithPending ==
    /\ hlog.kind = "ZoneSelected"
    /\ hlog.arg = Some(EndPoint("Zone", "z1"))
    /\ IsSome(app.pending_item_key)

\* what the handler did for the selection of z1
SelectionHandled ==
    /\ \E i \in 1..Len(sent) : sent[i].op = "subscribe_queue" /\ sent[i].arg = "z1"
    /\ \E i \in 1..Len(sent) :
          sent[i].op = "browse" /\ sent[i].arg.multi_session_key = Some("z1")
    /\ "z1" \in DOMAIN handler.browse_paths
    /\ handler.browse_paths["z1"] = <<"", "Profile", "Settings">>
    /\ handler.settings.zone_id = Some("z1")

\* the UI takes the ZoneChanged event of z1 while it holds an item key
PendingForwarded ==
    (/\ to_app # <<>>
     /\ to_app' = Tail(to_app)
     /\ Head(to_app).kind = "ZoneChanged"
     /\ Head(to_app).arg.zone_id = "z1"
     /\ IsSome(app.pending_item_key))
    => /\ to_roon' = Append(to_roon, Msg("BrowseSelected", app.pending_item_key))
       /\ app'.pending_item_key = None

\* C8: when the user selects Zone(z1) while the UI holds a pending item key,
\* the handler subscribes to the queue of z1, sends the profile browse request
\* under session key z1, records the script "", Profile, Settings for z1 and
\* stores z1 as the selected zone; the UI forwards the pending key as a
\* BrowseSelected request, and drops it, when ZoneChanged for z1 reaches it
C8_ZoneSelectedWithPending ==
    [](SelectedWithPending => SelectionHandled) /\ [][PendingForwarded]_vars

\* z1 was selected with an item key pending, stored, and its ZoneChanged
\* event is on its way to the UI
C8_Witness ==
    /\ SelectedWithPending
    /\ handler.settings.zone_id = Some("z1")
    /\ \E i \in 1..Len(sent) : sent[i].op = "subscribe_queue" /\ sent[i].arg = "z1"
    /\ \E i \in 1..Len(to_app) :
          to_app[i].kind = "ZoneChanged" /\ to_app[i].arg.zone_id = "z1"

(***************************************************************************)
(* The select loop of the handler, with the order of sending and handling  *)
(* recorded.                                                               *)
(***************************************************************************)
LoopKeys == {"F5", "Esc"}
LoopKeyPress == \E key \in LoopKeys : KeyPress(key)

InitLoop == InitWith({SettingsDefault}, TRUE)

NextLoop ==
    \/ CoreFound
    \/ CoreLost
    \/ ServerHomeList
    \/ ServerHomeLoad
    \/ LoopKeyPress
    \/ HandlerOnFound
    \/ HandlerOnLost
    \/ HandlerOnBrowseResult
    \/ HandlerOnLoadResult
    \/ HandlerOnBrowseRefresh
    \/ HandlerOnBrowseBack
    \/ AppOnDisplay
    \/ AppOnInput
    \/ AppOnBrowseTitle
    \/ AppOnBrowseList

SpecLoop == InitLoop /\ [][NextLoop]_vars

Items(log) == [i \in 1..Len(log) |-> log[i].item]
\* the channel of a source
ChannelOf(src) == IF src = "core" THEN core_rx ELSE to_roon

\* what was handled of each source, followed by what waits in its channel, is
\* what the source sent
FifoPerSource ==
    \A src \in {"core", "app"} :
        Items(OfSource(flow.handled, src)) \o ChannelOf(src)
            = Items(OfSource(flow.issued, src))

\* a step that changes the handler or handles an item takes the head of one
\* channel, and no more
OneItemTaken ==
    (handler' # handler \/ flow.handled' # flow.handled) =>
        /\ Len(flow.handled') = Len(flow.handled) + 1
        /\ \/ core_rx # <<>> /\ core_rx' = Tail(core_rx) /\ to_roon' = to_roon
           \/ to_roon # <<>> /\ to_roon' = Tail(to_roon) /\ core_rx' = core_rx

\* C9: the handler handles one item at a time, each to completion before the
\* next is taken from either source, and the items of each source are handled
\* in the order in which they were sent
C9_OneAtATimeFifo == []FifoPerSource /\ [][OneItemTaken]_vars

\* two different items of the server and an intent of the user were handled
\* while two different items of the server wait in the channel
C9_Witness ==
    /\ \E i, k \in 1..Len(flow.handled) :
          /\ i < k
          /\ flow.handled[i].src = "core" /\ flow.handled[k].src = "core"
          /\ ItemKind(flow.handled[i].item) # ItemKind(flow.handled[k].item)
    /\ \E j \in 1..Len(flow.handled) : flow.handled[j].src = "app"
    /\ Len(core_rx) = 2 /\ core_rx[1] # core_rx[2]

(***************************************************************************)
(* The supervisor: the loop of start that connects, spawns the handler     *)
(* into the task set of the connection, waits for a task of the set to     *)
(* complete, drops the set and retries after the fixed wait.               *)
(***************************************************************************)
\* most connections the server accepts
MaxConnections == 2

\* before the first connection attempt
SupStart == [pc |-> "connect", lib |-> FALSE, handlers |-> {}, gen |-> 0, lock |-> 0]

\* a faulty variant: it detaches the tasks of the set instead of aborting them
JoinSetDropDetach(s) == [s EXCEPT !.lib = FALSE]

\* the JoinSet goes out of scope: every task in it is aborted, and the aborted
\* handler's MutexGuard is dropped with its future
JoinSetDrop(s) ==
    [s EXCEPT !.lib = FALSE, !.handlers = @ \ {s.gen},
              !.lock = IF @ = s.gen THEN 0 ELSE @]

\* a faulty variant: it leaves the loop after the wait
AfterSleepStop(s) == [s EXCEPT !.pc = "stopped"]

\* sleep(10 s) is over: the loop starts its next round
AfterSleep(s) == [s EXCEPT !.pc = "connect"]

\* a faulty variant: it keeps the zones and the pause flag of an earlier handler
RoonHandlerNewStale(settings) ==
    [HandlerNew(settings) EXCEPT !.zone_map = MapInsert(EmptyMap, "z1", ZoneZ1),
                                 !.pause_on_track_end = TRUE]

RoonHandlerNew(settings) == HandlerNew(settings)

\* ws_connect / start_discovery hands back a task set and a channel: the
\* handler task is spawned into the set with a handler made by RoonHandler::new
SupConnectSome ==
    /\ sup.pc = "connect"
    /\ sup.gen < MaxConnections
    /\ sup' = [sup EXCEPT !.pc = "join", !.lib = TRUE, !.gen = @ + 1,
                          !.handlers = @ \cup {sup.gen + 1}]
    /\ handler' = RoonHandlerNew(disk)
    /\ core_rx' = <<>>
    /\ sent' = <<>>
    /\ server' = "absent"
    /\ UNCHANGED <<app, to_app, to_roon, disk, panicked, flow, hlog, qlog, script_log, hold>>

\* the attempt yields no connection
SupConnectNone ==
    /\ sup.pc = "connect"
    /\ sup' = [sup EXCEPT !.pc = "sleep"]
    /\ UNCHANGED <<app, handler, to_app, to_roon, core_rx, sent, disk, panicked, server,
                   flow, hlog, qlog, script_log, hold>>

\* the handler task takes the lock of the intent receiver at the top of its loop
HandlerLock ==
    /\ sup.gen \in sup.handlers
    /\ sup.lock = 0
    /\ sup' = [sup EXCEPT !.lock = sup.gen]
    /\ UNCHANGED <<app, handler, to_app, to_roon, core_rx, sent, disk, panicked, server,
                   flow, hlog, qlog, script_log, hold>>

\* the connection is lost: the task of the client library completes
ConnectionLost ==
    /\ sup.pc = "join"
    /\ sup.lib
    /\ core_rx = <<>> /\ to_app = <<>> /\ to_roon = <<>>
    /\ sup' = [sup EXCEPT !.lib = FALSE]
    /\ server' = "absent"
    /\ UNCHANGED <<app, handler, to_app, to_roon, core_rx, sent, disk, panicked, flow,
                   hlog, qlog, script_log, hold>>

\* join_next returns when a task of the set has completed; the set and the
\* channel of the connection are dropped and the fixed wait starts
SupJoinNext ==
    /\ sup.pc = "join"
    /\ ~sup.lib \/ sup.gen \notin sup.handlers
    /\ sup' = [JoinSetDrop(sup) EXCEPT !.pc = "sleep"]
    /\ core_rx' = <<>>
    /\ server' = "absent"
    /\ UNCHANGED <<app, handler, to_app, to_roon, sent, disk, panicked, flow, hlog, qlog,
                   script_log, hold>>

SupSleep ==
    /\ sup.pc = "sleep"
    /\ sup' = AfterSleep(sup)
    /\ UNCHANGED <<app, handler, to_app, to_roon, core_rx, sent, disk, panicked, server,
                   flow, hlog, qlog, script_log, hold>>

SupervisorSettings == {SettingsDefault, [SettingsDefault EXCEPT !.zone_id = Some("z1")]}

InitSupervisor ==
    /\ disk \in SupervisorSettings
    /\ handler = HandlerNew(disk)
    /\ app = AppInit
    /\ to_app = <<>> /\ to_roon = <<>> /\ core_rx = <<>> /\ sent = <<>>
    /\ panicked = {}
    /\ server = "absent"
    /\ flow = [on |-> FALSE, issued |-> <<>>, handled |-> <<>>]
    /\ hlog = HLogInit
    /\ qlog = QLogInit
    /\ script_log = EmptyMap
    /\ sup = SupStart
    /\ hold = NoHold

NextSupervisor ==
    \/ SupConnectSome
    \/ SupConnectNone
    \/ HandlerLock
    \/ ConnectionLost
    \/ SupJoinNext
    \/ SupSleep
    \/ CoreFound
    \/ CoreLost
    \/ ServerZoneOne
    \/ HandlerOnFound
    \/ HandlerOnLost
    \/ HandlerOnZones
    \/ AppOnDisplay
    \/ AppOnZones
    \/ AppOnZoneChanged

SpecSupervisor == InitSupervisor /\ [][NextSupervisor]_vars

\* the supervisor task is scheduled: a join_next that can return returns, and
\* the fixed wait ends
SpecSupervisorLive ==
    InitSupervisor /\ [][NextSupervisor]_vars /\ WF_vars(SupJoinNext) /\ WF_vars(SupSleep)

\* the tasks that hold the lock of the intent receiver
Receivers == {g \in sup.handlers : sup.lock = g}
OneHandler ==
    /\ Cardinality(sup.handlers) <= 1
    /\ Cardinality(Receivers) <= 1
    /\ sup.lock # 0 => sup.lock \in sup.handlers
\* a handler is created when no task of the previous connection is left
SpawnAfterCompletion == sup'.gen # sup.gen => sup.handlers = {} /\ ~sup.lib

\* C11: at any time at most one handler task exists and at most one task
\* receives from the user-intent channel; the supervisor creates a handler for
\* a new connection only after the tasks of the previous connection are gone
C11_OneHandlerTask == []OneHandler /\ [][SpawnAfterCompletion]_vars

\* the handler of the second connection holds the lock and is the only one
C11_Witness == sup.gen = 2 /\ sup.handlers = {2} /\ sup.lock = 2 /\ sup.pc = "join"

\* C12: after a connection attempt that yields no connection, and after a
\* live connection is lost, the supervisor makes another connection attempt
\* after the fixed wait; it never stops retrying
C12_AlwaysRetries ==
    /\ (sup.pc = "sleep") ~> (sup.pc = "connect")
    /\ (sup.pc = "join" /\ ~sup.lib) ~> (sup.pc = "connect")

\* the supervisor attempts again after both connections the server accepted
\* were lost
C12_Witness == sup.gen = MaxConnections /\ sup.pc = "connect" /\ sup.handlers = {}

\* the fields of a handler other than its settings are those of construction
FreshHandler(h) ==
    /\ h.zone_map = EmptyMap
    /\ h.browse_paths = EmptyMap
    /\ h.zone_output_ids = None
    /\ h.orphaned_output_id = None
    /\ h.matched_zones = EmptyMap
    /\ h.pause_on_track_end = FALSE
HandlerCreated == sup'.gen # sup.gen => FreshHandler(handler') /\ handler'.settings = disk

\* C13: every handler created for a new connection starts with an empty zone
\* map, no scripted sessions, no pending grouping target, no orphaned output,
\* no preset matches and pause-on-track-end off; its settings are the
\* persisted ones
C13_FreshHandler == [][HandlerCreated]_vars

\* the first handler took in a zone push; the handler of the second
\* connection has not handled an item and holds no zone
C13_Witness ==
    /\ sup.gen = 2 /\ sup.handlers = {2}
    /\ hlog.kind = "Zones"
    /\ handler.zone_map = EmptyMap
    /\ handler.settings = disk


(***************************************************************************)
(* Panics.  Vec::insert(index, _) panics when index > len and              *)
(* Vec::remove(index) when index >= len; apply_queue_changes passes the    *)
(* index of a diff to them unchecked.                                       *)
(***************************************************************************)

\* C14: no sequence of server pushes and user intents drives the handler or
\* the UI into a panic; in particular a queue diff with an index out of range
\* leaves the UI alive
C14_NoPanic == panicked = {}

\* the UI took in a batch with an index out of range
C14_Witness == qlog.op = "changes" /\ ~qlog.valid

(***************************************************************************)
(* The pending grouping target and the zone pushes.                        *)
(***************************************************************************)
\* the handler takes a zone-list push while a grouping target is pending
ZonesPushTaken ==
    /\ core_rx # <<>>
    /\ ItemKind(ChanRecv(core_rx).item) = "Zones"
    /\ core_rx' = ChanRecv(core_rx).rest
    /\ hlog'.kind = "Zones"
    /\ IsSome(handler.zone_output_ids)
\* the zone has exactly these outputs
SameOutputs(zone, ids) ==
    {zone.outputs[k].output_id : k \in 1..Len(zone.outputs)} = {ids[k] : k \in 1..Len(ids)}
PendingResolved ==
    ZonesPushTaken =>
        LET ids == Unwrap(handler.zone_output_ids)
            zones == Unwrap(ChanRecv(core_rx).item.msg).arg
            hits == {k \in 1..Len(zones) : SameOutputs(zones[k], ids)}
        IN  IF hits # {}
            THEN /\ IsNone(handler'.zone_output_ids)
                 /\ \E k \in hits : handler'.settings.zone_id = Some(zones[k].zone_id)
            ELSE /\ handler'.zone_output_ids = handler.zone_output_ids
                 /\ handler'.settings.zone_id = handler.settings.zone_id

\* C15: a zone-list push resolves the pending grouping target exactly when it
\* lists a zone whose output ids are the pending ids: that zone becomes the
\* selected zone and the target is cleared; otherwise both stay as they were
C15_PendingResolved == [][PendingResolved]_vars

\* a push of the group zone resolved a target: the group zone is selected
C15_Witness ==
    /\ hlog.kind = "Zones"
    /\ hlog.zone_id # Some("z3")
    /\ handler.settings.zone_id = Some("z3")
    /\ IsNone(handler.zone_output_ids)

(***************************************************************************)
(* The zone list: zone pushes, removals and the list sent to the UI.       *)
(***************************************************************************)
\* the settings an earlier run may have left: a selected group zone, presets
ZoneListPresets ==
    {None,
     Some(MapInsert(EmptyMap, "P1", StoredPreset(<<"o1", "o2">>))),
     Some(MapInsert(MapInsert(EmptyMap, "P1", StoredPreset(<<"o1", "o2">>)),
                    "P2", StoredPreset(<<"o1", "o2", "o3">>)))}
ZoneListSettings ==
    {[SettingsDefault EXCEPT !.zone_id = z, !.presets = t] :
        z \in {None, Some("z3")}, t \in ZoneListPresets}

\* the server withdraws one or two zones
ServerZonesRemovedSome ==
    \E zone_ids \in TickedLists(ZoneIdSet, {1, 2}) :
        /\ \E i \in 1..Len(zone_ids) : zone_ids[i] \in DOMAIN handler.zone_map
        /\ ServerPush(Msg("ZonesRemoved", zone_ids))

InitZoneList == InitWith(ZoneListSettings, FALSE)

NextZoneList ==
    \/ CoreFound
    \/ ServerZones
    \/ ServerZonesRemovedSome
    \/ HandlerOnFound
    \/ HandlerOnZones
    \/ HandlerOnZonesRemoved
    \/ AppOnDisplay
    \/ AppOnZones
    \/ AppOnZoneChanged
    \/ AppOnZoneRemoved

SpecZoneList == InitZoneList /\ [][NextZoneList]_vars

\* the events the handler step of this transition sent to the UI
NewEvents == SubSeq(to_app', Len(to_app) + 1, Len(to_app'))
\* the handler takes a zone-removal push
ZonesRemovedTaken ==
    /\ core_rx # <<>>
    /\ ItemKind(ChanRecv(core_rx).item) = "ZonesRemoved"
    /\ core_rx' = ChanRecv(core_rx).rest
    /\ hlog'.kind = "ZonesRemoved"
ZonesEvicted ==
    ZonesRemovedTaken =>
        LET zone_ids == Unwrap(ChanRecv(core_rx).item.msg).arg
            listed == {zone_ids[k] : k \in 1..Len(zone_ids)}
        IN  /\ listed \cap DOMAIN handler'.zone_map = {}
            /\ listed \cap DOMAIN handler'.matched_zones = {}
            /\ DOMAIN handler'.zone_map = DOMAIN handler.zone_map \ listed
            /\ (\E i \in 1..Len(NewEvents) : NewEvents[i].kind = "ZoneRemoved")
                  <=> (IsSome(handler.settings.zone_id)
                        /\ Unwrap(handler.settings.zone_id) \in listed)

\* C16: on a zone-removal push every listed zone id leaves the zone map and
\* the preset-match table, and ZoneRemoved is sent to the UI exactly when the
\* selected zone id is among the removed ids
C16_ZonesEvicted == [][ZonesEvicted]_vars

\* the selected zone, which the UI shows under the name of the preset it
\* matched, was removed and the UI is being told
C16_Witness ==
    /\ hlog.kind = "ZonesRemoved"
    /\ hlog.zone_id = Some("z3")
    /\ "z3" \notin DOMAIN handler.zone_map
    /\ "z1" \in DOMAIN handler.zone_map
    /\ handler.matched_zones = EmptyMap
    /\ \E i \in 1..Len(to_app) : to_app[i].kind = "ZoneRemoved" /\ to_app[i].arg = "z3"
    /\ IsSome(app.zones_items)
    /\ Contains(Unwrap(app.zones_items), <<EndPoint("Zone", "z3"), "P1">>)

\* the zone lists on their way to the UI
ZoneLists == {to_app[i].arg : i \in {j \in 1..Len(to_app) : to_app[j].kind = "Zones"}}
KindRank(type) == CASE type = "Zone" -> 1 [] type = "Output" -> 2 [] OTHER -> 3

\* C17: in every zone list sent to the UI the display name of an entry is not
\* greater than that of the next entry, whatever the kinds of the two
C17_SortedAcrossKinds ==
    \A list \in ZoneLists : \A i \in 1..(Len(list) - 1) :
        NameRank(list[i][2]) <= NameRank(list[i + 1][2])

\* C17 as the code has it: the list holds the zones, then the outputs of the
\* grouped zones, then the presets no zone matches, and the entries of each
\* kind are in the order of their display names
C17_SortedWithinKinds ==
    \A list \in ZoneLists : \A i \in 1..(Len(list) - 1) :
        /\ KindRank(list[i][1].type) <= KindRank(list[i + 1][1].type)
        /\ list[i][1].type = list[i + 1][1].type
              => NameRank(list[i][2]) <= NameRank(list[i + 1][2])

\* a list with two zones, the outputs of a group and a preset
C17_Witness ==
    \E list \in ZoneLists :
        /\ Cardinality({i \in 1..Len(list) : list[i][1].type = "Zone"}) >= 2
        /\ \E i \in 1..Len(list) : list[i][1].type = "Output"
        /\ \E i \in 1..Len(list) : list[i][1].type = "Preset"

(***************************************************************************)
(* The zone prompt: the server answers that the zone is not configured     *)
(* while zones come and go.                                                *)
(***************************************************************************)
InitDiscard == InitWith(SelectSettings, FALSE)

NextDiscard ==
    \/ CoreFound
    \/ ServerHomeList
    \/ ServerHomeLoad
    \/ ServerZonesOneOrTwo
    \/ ServerZonesRemoved
    \/ ServerNotConfigured
    \/ SelectKeyPress
    \/ HandlerOnFound
    \/ HandlerOnZones
    \/ HandlerOnZonesRemoved
    \/ HandlerOnBrowseResult
    \/ HandlerOnLoadResult
    \/ HandlerOnBrowseSelected
    \/ HandlerOnZoneSelected
    \/ AppOnDisplay
    \/ AppOnInput
    \/ AppOnBrowseTitle
    \/ AppOnBrowseList
    \/ AppOnZones
    \/ AppOnZoneSelect
    \/ AppOnZoneChanged
    \/ AppOnZoneRemoved

SpecDiscard == InitDiscard /\ [][NextDiscard]_vars

\* the handler takes the error message while its zone map is empty
NotConfiguredTaken ==
    /\ core_rx # <<>>
    /\ ChanRecv(core_rx).item.msg = Some(Msg("BrowseResult", NotConfigured))
    /\ core_rx' = ChanRecv(core_rx).rest
    /\ hlog'.kind = "BrowseResult"
    /\ handler.zone_map = EmptyMap
PromptEmitted ==
    NotConfiguredTaken => \E i \in 1..Len(NewEvents) : NewEvents[i].kind = "ZoneSelect"
\* the UI takes the prompt of a message handled while no zone was live: no
\* channel held another item when the message was sent, so the zone map is
\* still the one the handler saw
PromptTaken ==
    /\ to_app # <<>>
    /\ ChanRecv(to_app).item.kind = "ZoneSelect"
    /\ to_app' = ChanRecv(to_app).rest
    /\ app' # app
    /\ hlog.kind = "BrowseResult" /\ hlog.arg = Some(NotConfigured)
    /\ handler.zone_map = EmptyMap
PendingDiscarded == PromptTaken => IsNone(app'.pending_item_key)

\* C18: when the server reports "Zone is not configured" while no zone is
\* live, the zone prompt is sent to the UI and the UI is left without a
\* pending item key, so that none is forwarded when a zone is chosen later
C18_PendingDiscarded == [][PromptEmitted]_vars /\ [][PendingDiscarded]_vars

\* the prompt of a message handled without a live zone replaced the browse
\* view, where an item was selected, and no item key is pending
C18_Witness ==
    /\ hlog.kind = "BrowseResult" /\ hlog.arg = Some(NotConfigured)
    /\ handler.zone_map = EmptyMap
    /\ to_app = <<>>
    /\ app.selected_view = Some("Zones") /\ app.prev_view = Some("Browse")
    /\ IsSome(app.browse_items) /\ Len(Unwrap(app.browse_items)) > 0
    /\ IsNone(app.pending_item_key)

(***************************************************************************)
(* Paging: the chunks of the primary browse list as they reach the UI.     *)
(***************************************************************************)
\* largest offset of a chunk
MaxOffset == 2

ChunkItems ==
    {<<BrowseItem("Artists", Some("k1"))>>,
     <<BrowseItem("Albums", Some("k2")), BrowseItem("Tracks", Some("k3"))>>}
\* a chunk of the primary session that ends the list it belongs to
ServerChunkLoad ==
    /\ server = "paired"
    /\ \E offset \in 0..MaxOffset, items \in ChunkItems :
           ServerPush(Msg("LoadResult",
               LoadResultOf(items, offset, "Explore", offset + Len(items), 1, TUI_BROWSE)))

InitChunks == InitWith({SettingsDefault}, FALSE)

NextChunks ==
    \/ CoreFound
    \/ ServerHomeList
    \/ ServerChunkLoad
    \/ HandlerOnFound
    \/ HandlerOnBrowseResult
    \/ HandlerOnLoadResult
    \/ HandlerOnBrowseRefresh
    \/ AppOnDisplay
    \/ AppOnBrowseTitle
    \/ AppOnBrowseList

SpecChunks == InitChunks /\ [][NextChunks]_vars

\* the UI takes a chunk that neither starts a list nor extends the held one
StrayChunkTaken ==
    /\ to_app # <<>>
    /\ ChanRecv(to_app).item.kind = "BrowseList"
    /\ to_app' = ChanRecv(to_app).rest
    /\ IsSome(app.browse_items)
    /\ ChanRecv(to_app).item.arg.offset \notin {0, Len(Unwrap(app.browse_items))}
RefreshRequested ==
    StrayChunkTaken =>
        /\ to_roon' = Append(to_roon, Msg("BrowseRefresh", None))
        /\ app'.browse_items = app.browse_items

SavedIdLists ==
    {<<"o1", "o2">>, <<"o2", "o1">>, <<"o1", "o2", "o3">>, <<"o1", "o3", "o2">>}
SavePreset ==
    /\ "app" \notin panicked
    /\ \E name \in PresetNameSet, ids \in SavedIdLists :
           GroupingIntent(Msg("ZoneSavePreset", [name |-> name, output_ids |-> ids]))
\* the zones view deletes a preset of its list
DeletePreset ==
    \E name \in PresetNameSet :
        /\ IsSome(app.zones_items)
        /\ Contains(Unwrap(app.zones_items), <<EndPoint("Preset", name), name>>)
        /\ GroupingIntent(Msg("ZoneDeletePreset", name))

\* the server reports the group of o1 and o2
ServerZoneGroup ==
    /\ server = "paired"
    /\ ServerPush(Msg("Zones", <<ZoneZ3>>))

HandlerOnZoneDeletePreset == HandlerOnIntent("ZoneDeletePreset")

InitPresetSave == InitWith({SettingsDefault}, FALSE)

NextPresetSave ==
    \/ CoreFound
    \/ ServerZoneGroup
    \/ SavePreset
    \/ DeletePreset
    \/ HandlerOnFound
    \/ HandlerOnZones
    \/ HandlerOnZoneSavePreset
    \/ HandlerOnZoneDeletePreset
    \/ AppOnDisplay
    \/ AppOnZones
    \/ AppOnZoneChanged

SpecPresetSave == InitPresetSave /\ [][NextPresetSave]_vars

StoredPresets ==
    IF IsSome(handler.settings.presets) THEN Unwrap(handler.settings.presets) ELSE EmptyMap
\* the same first id and the same set of remaining ids
SameGrouping(p, q) ==
    /\ p[1][1] = q[1][1]
    /\ {p[i][1] : i \in 2..Len(p)} = {q[i][1] : i \in 2..Len(q)}

\* C20: no two names of the preset table map to id lists with the same first
\* id and the same set of remaining ids, after any sequence of save-preset
\* and delete-preset intents
C20_PresetsDistinct ==
    \A m, n \in DOMAIN StoredPresets :
        m # n => ~SameGrouping(StoredPresets[m], StoredPresets[n])

\* of two presets saved one was deleted: the one that is left has the ids of
\* no other
C20_Witness ==
    /\ hlog.kind = "ZoneDeletePreset"
    /\ DOMAIN StoredPresets = {"P1"}
    /\ disk.presets = handler.settings.presets

(***************************************************************************)
(* The two bounded channels, one send at a time.  A task takes an item,    *)
(* runs its handler call and sends the events of the call one by one; a    *)
(* send waits while the channel holds ChannelCapacity items.               *)
(***************************************************************************)
\* most items of the server waiting for the handler
MaxBacklog == 1

\* the queue subscription sends the next snapshot
ServerQueueNext ==
    /\ server = "paired"
    /\ sup.lib
    /\ Len(core_rx) < MaxBacklog
    /\ core_rx' = Append(core_rx, CoreItem("None", Some(Msg("Queue", <<>>))))
    /\ UNCHANGED <<app, handler, to_app, to_roon, sent, disk, panicked, server, flow, hlog,
                   qlog, script_log, sup, hold>>

\* the effects of a handler call but for its sends, which are still to come
HandlerHold(c) ==
    /\ handler' = c.h
    /\ hold' = [hold EXCEPT !.handler = c.tx]
    /\ sent' = c.rpc
    /\ disk' = IF IsSome(c.saved) THEN Unwrap(c.saved) ELSE disk
    /\ script_log' = ScriptLog(script_log, c.trace)
    /\ panicked' = IF c.status = "panic" THEN panicked \cup {"handler"} ELSE panicked
    /\ sup' = IF c.status = "panic" THEN TaskEnded(sup) ELSE sup

\* select! hands the handler an item of the server
HandlerTakeServer ==
    /\ HandlerRuns
    /\ hold.handler = <<>>
    /\ core_rx # <<>>
    /\ LET item == ChanRecv(core_rx).item
           kind == ItemKind(item)
           ev == IF IsSome(item.msg) THEN Unwrap(item.msg) ELSE Msg(item.core, None)
       IN  /\ \E ord \in OrdsFor(kind), draw \in Draws(ev) :
                HandlerHold(handle_core_item(handler, item, ord, draw))
           /\ hlog' = HLogOf(handler, kind, ev.arg)
    /\ core_rx' = ChanRecv(core_rx).rest
    /\ UNCHANGED <<app, to_app, to_roon, server, flow, qlog>>

\* select! hands the handler an intent of the UI
HandlerTakeIntent ==
    /\ HandlerRuns
    /\ hold.handler = <<>>
    /\ to_roon # <<>>
    /\ LET ev == ChanRecv(to_roon).item IN
           /\ \E ord \in OrdsFor(ev.kind) : HandlerHold(handle_io_event(Ctx(handler), ev, ord))
           /\ hlog' = HLogOf(handler, ev.kind, ev.arg)
    /\ to_roon' = ChanRecv(to_roon).rest
    /\ UNCHANGED <<app, to_app, core_rx, server, flow, qlog>>

\* to_app.send(event).await of the handler call under way
HandlerSend ==
    /\ HandlerRuns
    /\ hold.handler # <<>>
    /\ Len(to_app) < ChannelCapacity
    /\ to_app' = Append(to_app, Head(hold.handler))
    /\ hold' = [hold EXCEPT !.handler = Tail(@)]
    /\ UNCHANGED <<app, handler, to_roon, core_rx, sent, disk, panicked, server, flow, hlog,
                   qlog, script_log, sup>>

\* from_roon.recv().await of update_on_event
AppTake ==
    /\ "app" \notin panicked
    /\ hold.app = <<>>
    /\ to_app # <<>>
    /\ LET ev == ChanRecv(to_app).item
           r == update_on_event(app, ev)
       IN  /\ app' = r.app
           /\ hold' = [hold EXCEPT !.app = r.out]
           /\ panicked' = IF r.status = "panic" THEN panicked \cup {"app"} ELSE panicked
           /\ qlog' = QLogOf(app, ev, r)
    /\ to_app' = ChanRecv(to_app).rest
    /\ UNCHANGED <<handler, to_roon, core_rx, sent, disk, server, flow, hlog, script_log, sup>>

\* to_roon.send(intent).await of the event under way
AppSend ==
    /\ "app" \notin panicked
    /\ hold.app # <<>>
    /\ Len(to_roon) < ChannelCapacity
    /\ to_roon' = Append(to_roon, Head(hold.app))
    /\ hold' = [hold EXCEPT !.app = Tail(@)]
    /\ UNCHANGED <<app, handler, to_app, core_rx, sent, disk, panicked, server, flow, hlog,
                   qlog, script_log, sup>>

InitChannels == InitWith({SettingsDefault}, FALSE)

NextChannels ==
    \/ CoreFound
    \/ ServerQueueNext
    \/ HandlerTakeServer
    \/ HandlerTakeIntent
    \/ HandlerSend
    \/ AppTake
    \/ AppSend

SpecChannels == InitChannels /\ [][NextChannels]_vars

\* a task waits in a send to a full channel
HandlerBlocked == hold.handler # <<>> /\ Len(to_app) = ChannelCapacity
AppBlocked == hold.app # <<>> /\ Len(to_roon) = ChannelCapacity

\* C21: the UI task and the handler task are never both blocked, each in a
\* send to the full channel that only the other one empties
C21_NoMutualBlock == ~(HandlerBlocked /\ AppBlocked)

\* the UI waits to send while the handler is free to take the intents
C21_Witness == AppBlocked /\ hold.handler = <<>> /\ HandlerRuns

(***************************************************************************)
(* The diffs of a batch as splices of the queue.                           *)
(***************************************************************************)
\* the queue with the items at positions index, index+1, ..., or without the
\* count items at positions index .. index+count-1 (positions from 0)
Spliced(queue, change) ==
    IF change.operation = "Insert"
    THEN SubSeq(queue, 1, change.index) \o Unwrap(change.items)
            \o SubSeq(queue, change.index + 1, Len(queue))
    ELSE SubSeq(queue, 1, change.index)
            \o SubSeq(queue, change.index + Unwrap(change.count) + 1, Len(queue))
RECURSIVE SplicedInOrder(_, _)
SplicedInOrder(queue, changes) ==
    IF Len(changes) = 0 THEN queue
    ELSE SplicedInOrder(Spliced(queue, Head(changes)), Tail(changes))

\* the UI takes a batch whose indices are valid for the queue it holds
ValidBatchTaken ==
    /\ to_app # <<>>
    /\ ChanRecv(to_app).item.kind = "QueueListChanges"
    /\ to_app' = ChanRecv(to_app).rest
    /\ IsSome(app.queue_items)
    /\ BatchValid(Len(Unwrap(app.queue_items)), ChanRecv(to_app).item.arg)
DiffsSpliced ==
    ValidBatchTaken =>
        app'.queue_items
            = Some(SplicedInOrder(Unwrap(app.queue_items), ChanRecv(to_app).item.arg))

\* C22: the diffs of a batch are applied in the order received, each to the
\* queue the earlier ones left: Insert(index, items) puts the items, in their
\* order, at positions index, index+1, ... and Remove(index, count) deletes
\* the items at positions index .. index+count-1
C22_DiffsSpliced == [][DiffsSpliced]_vars

\* a valid batch left item A between B and C: an insertion inside the queue
C22_Witness ==
    /\ qlog.op = "changes" /\ qlog.valid /\ qlog.status = "ok"
    /\ IsSome(app.queue_items)
    /\ Len(Unwrap(app.queue_items)) = 3
    /\ Unwrap(app.queue_items)[1].line1 = "B"
    /\ Unwrap(app.queue_items)[2].line1 = "A"
    /\ Unwrap(app.queue_items)[3].line1 = "C"

(***************************************************************************)
(* update_grouping by the case of its target.                              *)
(***************************************************************************)
\* the handler takes a grouping intent and invokes update_grouping
GroupingTaken ==
    /\ HandlerRuns
    /\ to_roon # <<>>
    /\ ChanRecv(to_roon).item.kind = "ZoneGrouped"
    /\ to_roon' = ChanRecv(to_roon).rest
    /\ hlog'.kind = "ZoneGrouped"
    /\ handler.browse /\ handler.transport
GroupingTarget == ChanRecv(to_roon).item.arg
NoneRealizes ==
    \A z \in DOMAIN handler.zone_map : ~Realizes(handler.zone_map[z], GroupingTarget)
\* the live zones of more than one output that share an output with the target
OverlappingGroups ==
    {z \in DOMAIN handler.zone_map :
        /\ Len(handler.zone_map[z].outputs) > 1
        /\ \E k \in 1..Len(handler.zone_map[z].outputs) :
              Contains(GroupingTarget, handler.zone_map[z].outputs[k].output_id)}
UngroupFirst ==
    (GroupingTaken /\ NoneRealizes /\ OverlappingGroups # {}) =>
        /\ \E z \in OverlappingGroups :
              sent' = <<[op |-> "ungroup_outputs", arg |-> OutputIds(handler.zone_map[z])]>>
        /\ handler'.zone_output_ids = Some(GroupingTarget)

\* C23: when no live zone realizes the target and a live zone of more than
\* one output shares an output with it, update_grouping requests the
\* ungrouping of the outputs of such a zone, issues no group command and
\* returns the target as pending
C23_UngroupFirst == [][UngroupFirst]_vars

\* the group of o1 and o2 is being ungrouped for the pending target [o2, o1]
C23_Witness ==
    /\ hlog.kind = "ZoneGrouped" /\ ~hlog.realized
    /\ hlog.arg = Some(<<"o2", "o1">>)
    /\ sent = <<[op |-> "ungroup_outputs", arg |-> <<"o1", "o2">>]>>
    /\ handler.zone_output_ids = Some(<<"o2", "o1">>)

GroupWhenFree ==
    (GroupingTaken /\ NoneRealizes /\ OverlappingGroups = {}) =>
        IF Len(GroupingTarget) > 1
        THEN /\ sent' = <<[op |-> "group_outputs", arg |-> GroupingTarget]>>
             /\ handler'.zone_output_ids = Some(GroupingTarget)
        ELSE /\ sent' = <<>>
             /\ IsNone(handler'.zone_output_ids)

\* C25: when no live zone realizes the target and no live zone of more than
\* one output shares an output with it, update_grouping issues group_outputs
\* with exactly the target ids and returns them as pending if the target has
\* more than one id, and issues no command and returns nothing pending if
\* it has one
C25_GroupWhenFree == [][GroupWhenFree]_vars

\* a target of one output that only the zone of the other output is live for
\* was handled without a command
C25_Witness ==
    /\ hlog.kind = "ZoneGrouped" /\ ~hlog.realized
    /\ hlog.arg = Some(<<"o1">>)
    /\ DOMAIN handler.zone_map = {"z2"}
    /\ sent = <<>>
    /\ IsNone(handler.zone_output_ids)
    /\ handler.transport

(***************************************************************************)
(* The two phases of a grouping: the ungroup request, then the group       *)
(* request at a later push.                                                *)
(***************************************************************************)
\* the last handler step requested an ungrouping and left a target of more
\* than one output pending: the group request has yet to come
UngroupRequested ==
    /\ IsSome(handler.zone_output_ids)
    /\ Len(Unwrap(handler.zone_output_ids)) > 1
    /\ Len(sent) = 1 /\ sent[1].op = "ungroup_outputs"
\* the handler takes a zone-list push or a zone-removal push
ZonePushTaken ==
    /\ core_rx # <<>>
    /\ ItemKind(ChanRecv(core_rx).item) \in {"Zones", "ZonesRemoved"}
    /\ core_rx' = ChanRecv(core_rx).rest
    /\ hlog'.kind = ItemKind(ChanRecv(core_rx).item)
GroupBeforeResolved ==
    (ZonePushTaken /\ UngroupRequested) =>
        \/ sent' = <<[op |-> "group_outputs", arg |-> Unwrap(handler.zone_output_ids)]>>
        \/ handler'.zone_output_ids = handler.zone_output_ids

\* C24: after an ungroup was requested for a pending grouping target (of more
\* than one output, which needs the group request), the
\* zone push that follows either brings the group request for exactly the
\* pending ids or leaves the target recorded for the push that will: the
\* target is not dropped between the ungroup request and the group request
C24_GroupBeforeResolved == [][GroupBeforeResolved]_vars

\* the group zone was ungrouped for a target, a push of that same zone took
\* the target away and the removal of the zone brought no group request
C24_Witness ==
    /\ hlog.kind = "ZonesRemoved"
    /\ hlog.zone_id = Some("z3")
    /\ IsNone(handler.zone_output_ids)
    /\ sent = <<>>
    /\ "z3" \notin DOMAIN handler.zone_map

(***************************************************************************)
(* The life of a pending grouping target.  The handler task and the UI     *)
(* task are scheduled whenever they have an item to take (the tokio        *)
(* runtime polls a ready task), and the server keeps pushing zones and     *)
(* removals; which zones it pushes is its own choice, and the user need    *)
(* not group again.                                                        *)
(***************************************************************************)
\* the steps of the two tasks by what they take: only the handler shortens
\* core_rx and to_roon, only the UI shortens to_app
HandlerTakesPush == core_rx # <<>> /\ core_rx' = ChanRecv(core_rx).rest
HandlerTakesIntent == to_roon # <<>> /\ to_roon' = ChanRecv(to_roon).rest
AppTakesEvent == to_app # <<>> /\ to_app' = ChanRecv(to_app).rest
\* weak fairness of a task's step, with the condition that enables it written
\* out: a task that has an item waiting from some point on takes one
TaskScheduled ==
    /\ []<>(~(HandlerRuns /\ core_rx # <<>>)) \/ []<><<HandlerTakesPush>>_vars
    /\ []<>(~(HandlerRuns /\ to_roon # <<>>)) \/ []<><<HandlerTakesIntent>>_vars
    /\ []<>(~("app" \notin panicked /\ to_app # <<>>)) \/ []<><<AppTakesEvent>>_vars

SpecGroupingLive ==
    /\ InitGrouping /\ [][NextGrouping]_vars
    /\ TaskScheduled
    /\ WF_vars(CoreFound)
    /\ WF_vars(ServerZones)

\* C26: a pending grouping target is always eventually cleared by a push
\* that resolves it, unless a later grouping intent arrives to replace it
C26_PendingCleared ==
    IsSome(handler.zone_output_ids) ~> (IsNone(handler.zone_output_ids) \/ to_roon # <<>>)

\* a group request is out for a target of two outputs, the zones the server
\* pushes are taken in, and the list of zones is not sent to the UI
C26_Witness ==
    /\ handler.zone_output_ids = Some(<<"o1", "o2">>)
    /\ hlog.kind = "Zones"
    /\ DOMAIN handler.zone_map = {"z1", "z2"}
    /\ to_app = <<>>

(***************************************************************************)
(* The chunks of the primary session and the way back: Load responses of   *)
(* any offset, count and level, and the Esc key of the browse view.        *)
(***************************************************************************)
\* most items the server reports for a list
MaxTotal == 5
\* a chunk of the primary session of a list of any length, at any level
ServerPageLoad ==
    /\ server = "paired"
    /\ \E offset \in 0..MaxOffset, items \in ChunkItems, count \in 0..MaxTotal, level \in {0, 1} :
           ServerPush(Msg("LoadResult",
               LoadResultOf(items, offset, "Explore", count, level, TUI_BROWSE)))
BackKeyPress == KeyPress("Esc")

InitPaging == InitWith({SettingsDefault}, FALSE)

NextPaging ==
    \/ CoreFound
    \/ ServerHomeList
    \/ ServerPageLoad
    \/ BackKeyPress
    \/ HandlerOnFound
    \/ HandlerOnBrowseResult
    \/ HandlerOnLoadResult
    \/ HandlerOnBrowseRefresh
    \/ HandlerOnBrowseBack
    \/ AppOnDisplay
    \/ AppOnInput
    \/ AppOnBrowseTitle
    \/ AppOnBrowseList

SpecPaging == InitPaging /\ [][NextPaging]_vars

\* the handler, holding a browse service, takes a Load response of the primary
\* session
PrimaryLoadTaken ==
    /\ HandlerRuns /\ core_rx # <<>>
    /\ ItemKind(ChanRecv(core_rx).item) = "LoadResult"
    /\ core_rx' = ChanRecv(core_rx).rest
    /\ hlog'.kind = "LoadResult"
    /\ Unwrap(ChanRecv(core_rx).item.msg).arg.key = Some(TUI_BROWSE)
    /\ handler.browse
LoadTaken == Unwrap(ChanRecv(core_rx).item.msg).arg
NextChunkRequested ==
    PrimaryLoadTaken =>
        LET o == LoadTaken.offset
            n == Len(LoadTaken.items)
        IN  /\ IF o + n < LoadTaken.list.count
               THEN /\ Len(sent') = 1
                    /\ sent'[1].op = "load"
                    /\ sent'[1].arg.offset = o + n
                    /\ sent'[1].arg.multi_session_key = Some(TUI_BROWSE)
               ELSE sent' = <<>>
            /\ Len(NewEvents) = 1
            /\ NewEvents[1].kind = "BrowseList"
            /\ NewEvents[1].arg.offset = o
            /\ NewEvents[1].arg.items = LoadTaken.items

\* C27: on the primary session, after a Load response with offset o, n items
\* and total count c a further Load request is issued exactly when o + n < c,
\* and it asks for offset o + n; the items of every Load response are sent on
\* to the UI with their offset
C27_NextChunkRequested == [][NextChunkRequested]_vars

\* a chunk of two items at offset 1 of a list of five brought the request for
\* offset 3
C27_Witness ==
    /\ hlog.kind = "LoadResult"
    /\ Len(sent) = 1 /\ sent[1].op = "load" /\ sent[1].arg.offset = 3
    /\ Len(to_app) = 1 /\ to_app[1].kind = "BrowseList"
    /\ to_app[1].arg.offset = 1 /\ Len(to_app[1].arg.items) = 2

\* the handler, holding a browse service, takes the back intent
BrowseBackTaken ==
    /\ HandlerRuns /\ to_roon # <<>>
    /\ ChanRecv(to_roon).item.kind = "BrowseBack"
    /\ to_roon' = ChanRecv(to_roon).rest
    /\ hlog'.kind = "BrowseBack"
    /\ handler.browse
BackBelowTopLevel ==
    \* the flag is the level of the most recent Load response of the primary
    \* session: every such response sets it and no other step changes it
    /\ IF PrimaryLoadTaken
       THEN handler'.browse_reached_home = (LoadTaken.list.level = 0)
       ELSE handler'.browse_reached_home = handler.browse_reached_home
    /\ BrowseBackTaken =>
          IF handler.browse_reached_home
          THEN sent' = <<>>
          ELSE /\ Len(sent') = 1
               /\ sent'[1].op = "browse"
               /\ sent'[1].arg.pop_levels = Some(1)

ScriptSettings ==
    {[SettingsDefault EXCEPT !.zone_id = Some("z1"), !.profile = p] :
        p \in {None, Some(ProfileName)}}
StepTitles == {"Settings", "Profile", ProfileName}
\* the lists of a response: the item at position i has key k<i>
StepLists ==
    {<<>>} \cup {<<BrowseItem(t, Some("k1"))>> : t \in StepTitles}
           \cup {<<BrowseItem(t, Some("k1")), BrowseItem(u, Some("k2"))>> :
                    t \in StepTitles, u \in StepTitles}
ServerStepLoad ==
    /\ server = "paired"
    /\ \E items \in StepLists, list_title \in {"Profile", "Library"} :
           ServerPush(Msg("LoadResult",
               LoadResultOf(items, 0, list_title, Len(items), 1, "z1")))

InitScript == InitWith(ScriptSettings, FALSE)

NextScript ==
    \/ CoreFound
    \/ ServerZoneOne
    \/ ServerStepLoad
    \/ HandlerOnFound
    \/ HandlerOnZones
    \/ HandlerOnLoadResult
    \/ AppOnDisplay
    \/ AppOnZones
    \/ AppOnZoneChanged

SpecScript == InitScript /\ [][NextScript]_vars

\* the handler, holding a browse service, takes a Load response of a scripted
\* session that has a step left
ScriptStepTaken ==
    /\ HandlerRuns /\ core_rx # <<>>
    /\ ItemKind(ChanRecv(core_rx).item) = "LoadResult"
    /\ core_rx' = ChanRecv(core_rx).rest
    /\ hlog'.kind = "LoadResult"
    /\ LoadTaken.key = Some("z1")
    /\ "z1" \in DOMAIN handler.browse_paths
    /\ Len(handler.browse_paths["z1"]) > 0
    /\ handler.browse
\* the step consumed: the last entry of the script
StepTaken == handler.browse_paths["z1"][Len(handler.browse_paths["z1"])]
\* the positions of the items the step looks for
StepMatches ==
    LET items == LoadTaken.items IN
    IF StepTaken = ""
    THEN IF LoadTaken.list.title = "Profile"
         THEN {i \in 1..Len(items) : handler.settings.profile = Some(items[i].title)}
         ELSE {i \in 1..Len(items) : i = 1}
    ELSE {i \in 1..Len(items) : items[i].title = StepTaken}
StepSelects ==
    ScriptStepTaken =>
        IF StepMatches = {}
        THEN sent' = <<>>
        ELSE LET first == CHOOSE i \in StepMatches : \A j \in StepMatches : i <= j IN
             /\ Len(sent') = 1
             /\ sent'[1].op = "browse"
             /\ sent'[1].arg.item_key = LoadTaken.items[first].item_key
             /\ sent'[1].arg.multi_session_key = Some("z1")

\* C29: a consumed script step selects, when it is the empty string, the item
\* titled with the persisted profile name on a list titled "Profile" and the
\* first item on any other list, and when it is not empty the item whose
\* title equals it (the first of them); without such an item no browse
\* request is issued
C29_StepSelects == [][StepSelects]_vars

\* the empty step of a script took the second item of a Profile list, the one
\* titled with the profile name
C29_Witness ==
    /\ hlog.kind = "LoadResult"
    /\ "z1" \in DOMAIN script_log
    /\ script_log["z1"].consumed = 3
    /\ handler.settings.profile = Some(ProfileName)
    /\ Len(sent) = 1 /\ sent[1].op = "browse" /\ sent[1].arg.item_key = Some("k2")

(***************************************************************************)
(* The entries of a zone list against the zones and presets the handler    *)
(* holds when it sends the list.                                           *)
(***************************************************************************)
PresetsOf(h) == IF IsSome(h.settings.presets) THEN Unwrap(h.settings.presets) ELSE EmptyMap
\* the zone is matched to a saved preset
MatchedToPreset(h, z) ==
    z \in DOMAIN h.matched_zones /\ h.matched_zones[z] \in DOMAIN PresetsOf(h)
\* the entries the list is to hold
ZoneEntry(h, z) ==
    <<EndPoint("Zone", z),
      IF MatchedToPreset(h, z) THEN h.matched_zones[z] ELSE h.zone_map[z].display_name>>
OutputEntry(output) == <<EndPoint("Output", output.output_id), output.display_name>>
PresetEntry(name) == <<EndPoint("Preset", name), name>>
\* the outputs of the live zones of more than one output, zone by zone
GroupedOutputs(h) ==
    UNION {{<<z, k>> : k \in 1..Len(h.zone_map[z].outputs)} :
             z \in {y \in DOMAIN h.zone_map : Len(h.zone_map[y].outputs) > 1}}
UnmatchedPresets(h) ==
    {name \in DOMAIN PresetsOf(h) :
        ~\E z \in DOMAIN h.zone_map : MatchedToPreset(h, z) /\ h.matched_zones[z] = name}
\* how often the list is to hold the entry
EntriesDue(h, e) ==
    Cardinality({z \in DOMAIN h.zone_map : ZoneEntry(h, z) = e})
      + Cardinality({zk \in GroupedOutputs(h) : OutputEntry(h.zone_map[zk[1]].outputs[zk[2]]) = e})
      + Cardinality({name \in UnmatchedPresets(h) : PresetEntry(name) = e})
EntriesHeld(list, e) == Cardinality({i \in 1..Len(list) : list[i] = e})
ListComplete(h, list) ==
    /\ Len(list) = Cardinality(DOMAIN h.zone_map) + Cardinality(GroupedOutputs(h))
                      + Cardinality(UnmatchedPresets(h))
    /\ \A i \in 1..Len(list) : EntriesHeld(list, list[i]) = EntriesDue(h, list[i])
ZoneListsComplete ==
    \A i \in 1..Len(NewEvents) :
        NewEvents[i].kind = "Zones" => ListComplete(handler', NewEvents[i].arg)

\* C30: every zone list sent to the UI holds exactly one entry per live zone
\* (under the name of the preset the zone is matched to, if any), one output
\* entry for each output of every live zone of more than one output, one
\* preset entry for each saved preset that no live zone is matched to, and
\* nothing else
C30_ZoneListsComplete == [][ZoneListsComplete]_vars

(***************************************************************************)
(* The zone list and a key of the zones view that is pressed while a push  *)
(* of the server waits for the handler.                                    *)
(***************************************************************************)
\* the settings an earlier run left: the preset P1 of o1 and o2
RaceSettings ==
    {[SettingsDefault EXCEPT
        !.presets = Some(MapInsert(EmptyMap, "P1", StoredPreset(<<"o1", "o2">>)))]}
ZonesViewKeys == {"Ctrl-z", "Down", "Delete"}
ZonesViewKeyPress == \E key \in ZonesViewKeys : KeyPress(key)
\* the Delete key reaches the UI while a push waits in core_rx
DeleteKeyEarly ==
    /\ core_rx # <<>> /\ to_app = <<>> /\ to_roon = <<>>
    /\ to_app' = <<Msg("Input", "Delete")>>
    /\ UNCHANGED <<app, handler, to_roon, core_rx, sent, disk, panicked, server, flow,
                   hlog, qlog, script_log, sup, hold>>

InitListRace == InitWith(RaceSettings, FALSE)

NextListRace ==
    \/ CoreFound
    \/ ServerZoneOne
    \/ ServerZoneGroup
    \/ ZonesViewKeyPress
    \/ DeleteKeyEarly
    \/ HandlerOnFound
    \/ HandlerOnZones
    \/ HandlerOnZoneDeletePreset
    \/ AppOnDisplay
    \/ AppOnInput
    \/ AppOnZones
    \/ AppOnZoneChanged

SpecListRace == InitListRace /\ [][NextListRace]_vars

\* the list sent after the preset P1 was deleted holds the group zone under
\* the name P1
C30_Witness ==
    /\ hlog.kind = "ZoneDeletePreset"
    /\ "P1" \notin DOMAIN PresetsOf(handler)
    /\ to_app # <<>>
    /\ to_app[Len(to_app)].kind = "Zones"
    /\ Contains(to_app[Len(to_app)].arg, <<EndPoint("Zone", "z3"), "P1">>)

(***************************************************************************)
(* The queue modes: the table of the settings, the intent that steps to    *)
(* the next mode and the synchronisation at zone activations.              *)
(***************************************************************************)
\* the modes a user without (p = None) or with a profile steps through
ModeCycle(p) == IF IsNone(p) THEN SubSeq(QueueModeSeq, 1, 2) ELSE QueueModeSeq
\* the settings an earlier run left: zone z1 selected, with or without a
\* profile, and no mode table or a mode of the cycle stored under the zone id
\* (as earlier versions did) or under the output id
ModeSettings ==
    {[SettingsDefault EXCEPT !.zone_id = Some("z1"), !.profile = p, !.queue_modes = q] :
        p \in {None, Some(ProfileName)},
        q \in {None} \cup {Some(MapInsert(EmptyMap, k, m)) :
                              k \in {"z1", "o1"}, m \in {"Manual", "RoonRadio"}}}
      \cup
    {[SettingsDefault EXCEPT !.zone_id = Some("z1"), !.profile = Some(ProfileName),
                             !.queue_modes = Some(MapInsert(EmptyMap, k, m))] :
        k \in {"z1", "o1"}, m \in {"RandomAlbum", "RandomTrack"}}
\* the selected zone as the server reports it, with auto radio off or on
ServerZoneRadio ==
    /\ server = "paired"
    /\ \E auto_radio \in BOOLEAN :
           ServerPush(Msg("Zones", <<[ZoneZ1 EXCEPT !.auto_radio = auto_radio]>>))
\* the intents of the keys that step the mode, select the zone and group
QueueModeNextIntent ==
    /\ "app" \notin panicked
    /\ GroupingIntent(Msg("QueueModeNext", None))
SelectZoneIntent ==
    /\ "app" \notin panicked
    /\ GroupingIntent(Msg("ZoneSelected", EndPoint("Zone", "z1")))
GroupPairIntent ==
    /\ "app" \notin panicked
    /\ GroupingIntent(Msg("ZoneGrouped", <<"o1", "o2">>))
HandlerOnQueueModeNext == HandlerOnIntent("QueueModeNext")

InitQueueMode == InitWith(ModeSettings, FALSE)

NextQueueMode ==
    \/ CoreFound
    \/ ServerZoneRadio
    \/ QueueModeNextIntent
    \/ SelectZoneIntent
    \/ GroupPairIntent
    \/ HandlerOnFound
    \/ HandlerOnZones
    \/ HandlerOnQueueModeNext
    \/ HandlerOnZoneSelected
    \/ HandlerOnZoneGrouped
    \/ AppOnDisplay
    \/ AppOnZones
    \/ AppOnZoneChanged

SpecQueueMode == InitQueueMode /\ [][NextQueueMode]_vars

ModesOf(h) == IF IsSome(h.settings.queue_modes) THEN Unwrap(h.settings.queue_modes) ELSE EmptyMap
\* the selected zone is live and has an output
SelectedLive(h) ==
    /\ IsSome(h.settings.zone_id)
    /\ Unwrap(h.settings.zone_id) \in DOMAIN h.zone_map
    /\ Len(h.zone_map[Unwrap(h.settings.zone_id)].outputs) > 0
SelectedZone(h) == h.zone_map[Unwrap(h.settings.zone_id)]
PrimaryOutput(h) == SelectedZone(h).outputs[1].output_id
\* the handler takes the intent while a mode is stored for the primary output
ModeNextTaken ==
    /\ HandlerRuns /\ to_roon # <<>>
    /\ ChanRecv(to_roon).item.kind = "QueueModeNext"
    /\ to_roon' = ChanRecv(to_roon).rest
    /\ hlog'.kind = "QueueModeNext"
    /\ handler.browse
    /\ SelectedLive(handler)
    /\ PrimaryOutput(handler) \in DOMAIN ModesOf(handler)
\* the mode after this one in the cycle, Manual after the last
NextInCycle(mode, cycle) ==
    IF \E i \in 1..(Len(cycle) - 1) : cycle[i] = mode
    THEN cycle[(CHOOSE i \in 1..(Len(cycle) - 1) : cycle[i] = mode) + 1]
    ELSE "Manual"
\* the handler after k further intents
RECURSIVE AfterIntents(_, _)
AfterIntents(h, k) ==
    IF k = 0 THEN h ELSE AfterIntents(select_next_queue_mode(Ctx(h)).c.h, k - 1)
ModeAdvanced ==
    ModeNextTaken =>
        LET o == PrimaryOutput(handler)
            cycle == ModeCycle(handler.settings.profile)
        IN  /\ ModesOf(handler')[o] = NextInCycle(ModesOf(handler)[o], cycle)
            /\ ModesOf(AfterIntents(handler, Len(cycle)))[o] = ModesOf(handler)[o]
            /\ \A k \in 1..(Len(cycle) - 1) :
                    ModesOf(AfterIntents(handler, k))[o] # ModesOf(handler)[o]

\* C31: a next-queue-mode intent moves the mode stored for the primary output
\* of the selected zone to the next mode in the order Manual, RoonRadio,
\* RandomAlbum, RandomTrack and to Manual after the last mode of the cycle;
\* the cycle has 2 modes without a profile and 4 with one, and that many
\* intents in a row, and no fewer, lead back to the mode they started from
C31_ModeAdvanced == [][ModeAdvanced]_vars

\* with a profile the intent moved the mode from RandomTrack back to Manual
C31_Witness ==
    /\ hlog.kind = "QueueModeNext"
    /\ IsSome(handler.settings.profile)
    /\ SelectedLive(handler)
    /\ ModesOf(handler) = MapInsert(EmptyMap, "o1", "Manual")
    /\ disk.queue_modes = handler.settings.queue_modes
    /\ Len(sent) = 1 /\ sent[1].op = "change_settings" /\ ~sent[1].arg.auto_radio

\* the handler takes a selection of a zone or a zone-list push
ZoneActivationTaken ==
    /\ HandlerRuns
    /\ handler.browse /\ handler.transport
    /\ \/ /\ to_roon # <<>>
          /\ ChanRecv(to_roon).item.kind = "ZoneSelected"
          /\ ChanRecv(to_roon).item.arg.type = "Zone"
          /\ to_roon' = ChanRecv(to_roon).rest
          /\ hlog'.kind = "ZoneSelected"
       \/ /\ core_rx # <<>>
          /\ ItemKind(ChanRecv(core_rx).item) = "Zones"
          /\ core_rx' = ChanRecv(core_rx).rest
          /\ hlog'.kind = "Zones"
ModeKeyMoved ==
    /\ Unwrap(handler'.settings.zone_id) \notin DOMAIN ModesOf(handler')
    /\ PrimaryOutput(handler') \in DOMAIN ModesOf(handler')
ModeKeyMovedAlways ==
    (ZoneActivationTaken /\ SelectedLive(handler')) => ModeKeyMoved
ModeKeyMovedUnlessPending ==
    (ZoneActivationTaken /\ SelectedLive(handler')
        /\ (hlog'.kind = "Zones" => IsNone(handler'.zone_output_ids))) => ModeKeyMoved

\* C32 as stated: after a zone activation (a zone selection or a zone-list
\* push) with the selected zone live, the mode table has no entry under the id
\* of the selected zone and has one under the id of its primary output
C32_ModeKeyMovedAlways == [][ModeKeyMovedAlways]_vars

\* C32 as the handler has it: the same after a zone selection and after a
\* zone-list push that leaves no grouping target pending
C32_ModeKeyMoved == [][ModeKeyMovedUnlessPending]_vars

\* a push of the selected zone moved the mode stored under z1 to o1
C32_Witness ==
    /\ hlog.kind = "Zones"
    /\ SelectedLive(handler)
    /\ IsSome(disk.queue_modes)
    /\ ModesOf(handler) = MapInsert(EmptyMap, "o1", "RandomAlbum")
    /\ IsNone(handler.zone_output_ids)

\* the mode stored for the primary output before the step, under either key
StoredBefore ==
    LET zone_id == Unwrap(handler'.settings.zone_id) IN
    IF zone_id \in DOMAIN ModesOf(handler) THEN Some(ModesOf(handler)[zone_id])
    ELSE MapGet(ModesOf(handler), PrimaryOutput(handler'))
RadioSynced ==
    (ZoneActivationTaken /\ SelectedLive(handler')
        /\ (hlog'.kind = "Zones" => IsNone(handler'.zone_output_ids))) =>
        LET mode == ModesOf(handler')[PrimaryOutput(handler')]
            auto_radio == SelectedZone(handler').auto_radio
        IN  /\ mode = "RoonRadio" <=> auto_radio
            /\ (StoredBefore = Some("RoonRadio") /\ ~auto_radio) => mode = "Manual"
            /\ \E i \in 1..Len(NewEvents) :
                    NewEvents[i] = Msg("QueueModeCurrent", mode)
            /\ \A i \in 1..Len(NewEvents) :
                    NewEvents[i].kind = "QueueModeCurrent" => NewEvents[i].arg = mode
            /\ disk' = handler'.settings

\* C37: after every queue-mode synchronisation (a zone selection, or a
\* zone-list push with no grouping pending) with the selected zone live, the
\* mode stored and reported for the primary output is RoonRadio exactly when
\* auto radio of the zone is on, and a RoonRadio stored while auto radio is off
\* has become Manual
C37_RadioSynced == [][RadioSynced]_vars

\* a push with auto radio off replaced the stored RoonRadio by Manual
C37_Witness ==
    /\ hlog.kind = "Zones"
    /\ SelectedLive(handler)
    /\ ~SelectedZone(handler).auto_radio
    /\ ModesOf(handler) = MapInsert(EmptyMap, "o1", "Manual")
    /\ IsNone(handler.settings.profile)
    /\ \E i \in 1..Len(to_app) : to_app[i] = Msg("QueueModeCurrent", "Manual")

(***************************************************************************)
(* Playback: seek updates, the play key and pause at the end of the track. *)
(***************************************************************************)
\* the settings an earlier run left: zone z1 selected with a profile, and no
\* mode table or a mode stored for its output o1
PlaySettings ==
    {[SettingsDefault EXCEPT !.zone_id = Some("z1"), !.profile = Some(ProfileName),
                             !.queue_modes = q] :
        q \in {None} \cup {Some(MapInsert(EmptyMap, "o1", QueueModeSeq[m])) : m \in 1..4}}
\* what the server reports as playing: nothing, an item without a length (a
\* live stream), an item of length 0 or a track
NowPlayings == {None, Some([length |-> None]), Some([length |-> Some(0)]),
                Some([length |-> Some(10)])}
\* the selected zone as the server reports it
ServerZonePlaying ==
    /\ server = "paired"
    /\ \E state \in {"Playing", "Paused"}, now_playing \in NowPlayings :
           ServerPush(Msg("Zones", <<[ZoneZ1 EXCEPT !.state = state,
                                                     !.now_playing = now_playing]>>))
\* a seek update of the selected zone or of a zone the handler does not hold
ServerZonesSeek ==
    /\ server = "paired"
    /\ \E zone_id \in {"z1", "z2"}, queue_time_remaining \in {-1, 0, 3, 4},
          seek_position \in {None, Some(0), Some(5)} :
           ServerPush(Msg("ZonesSeek", <<[zone_id |-> zone_id,
                                          queue_time_remaining |-> queue_time_remaining,
                                          seek_position |-> seek_position]>>))
\* the intents of the play key and of the pause-at-track-end key
PlayIntent ==
    /\ "app" \notin panicked
    /\ GroupingIntent(Msg("Control", "PlayPause"))
PauseOnTrackEndIntent ==
    /\ "app" \notin panicked
    /\ GroupingIntent(Msg("PauseOnTrackEndReq", None))
HandlerOnZonesSeek == HandlerOnServer("ZonesSeek")
HandlerOnControl == HandlerOnIntent("Control")
HandlerOnPauseOnTrackEndReq == HandlerOnIntent("PauseOnTrackEndReq")

InitPlay == InitWith(PlaySettings, FALSE)

NextPlay ==
    \/ CoreFound
    \/ ServerZonePlaying
    \/ ServerZonesSeek
    \/ PlayIntent
    \/ PauseOnTrackEndIntent
    \/ GroupPairIntent
    \/ HandlerOnFound
    \/ HandlerOnZones
    \/ HandlerOnZonesSeek
    \/ HandlerOnZoneGrouped
    \/ HandlerOnControl
    \/ HandlerOnPauseOnTrackEndReq
    \/ AppOnDisplay
    \/ AppOnZones
    \/ AppOnZoneChanged

SpecPlay == InitPlay /\ [][NextPlay]_vars

\* the request that opens a scripted session of a zone at the root
PopToRoot(zone_id) ==
    [op |-> "browse", arg |-> [BrowseOptsDefault EXCEPT !.pop_all = TRUE,
                                                       !.multi_session_key = Some(zone_id)]]
\* the handler takes a seek update
SeekTaken ==
    /\ HandlerRuns /\ core_rx # <<>>
    /\ ItemKind(ChanRecv(core_rx).item) = "ZonesSeek"
    /\ core_rx' = ChanRecv(core_rx).rest
    /\ hlog'.kind = "ZonesSeek"
\* the handler takes the play command while the selected zone plays nothing
PlayTaken ==
    /\ HandlerRuns /\ to_roon # <<>>
    /\ ChanRecv(to_roon).item = Msg("Control", "PlayPause")
    /\ to_roon' = ChanRecv(to_roon).rest
    /\ hlog'.kind = "Control"
    /\ SelectedLive(handler)
    /\ IsNone(SelectedZone(handler).now_playing)
\* the zones this step is to replenish: those of the seeks with 0 to 3 seconds
\* left in the queue, or the selected zone when play is pressed
ReplenishDue ==
    IF SeekTaken
    THEN LET seeks == Unwrap(ChanRecv(core_rx).item.msg).arg IN
         {seeks[i].zone_id : i \in {j \in 1..Len(seeks) :
                                      /\ seeks[j].queue_time_remaining \in 0..3
                                      /\ seeks[j].zone_id \in DOMAIN handler.zone_map}}
    ELSE IF PlayTaken THEN {Unwrap(handler.settings.zone_id)}
    ELSE {}
\* the script of a mode, last step first
ModeScript(mode) ==
    IF mode = "RandomAlbum" THEN <<"Play Now", "Play Album", "", "Albums", "Library">>
    ELSE <<"Play Now", "", "Tracks", "Library">>
\* what the step did for the zone follows the mode of its primary output
ReplenishedBy(zone_id, mode) ==
    IF mode \in {"RandomAlbum", "RandomTrack"}
    THEN /\ \E i \in 1..Len(sent') : sent'[i] = PopToRoot(zone_id)
         /\ zone_id \in DOMAIN handler'.browse_paths
         /\ handler'.browse_paths[zone_id] = ModeScript(mode)
    ELSE /\ \A i \in 1..Len(sent') : sent'[i].op # "browse"
         /\ handler'.browse_paths = handler.browse_paths
ModeOfZone(h, zone_id) == ModesOf(h)[h.zone_map[zone_id].outputs[1].output_id]
HasMode(h, zone_id) ==
    /\ Len(h.zone_map[zone_id].outputs) > 0
    /\ h.zone_map[zone_id].outputs[1].output_id \in DOMAIN ModesOf(h)
Replenished ==
    \A zone_id \in ReplenishDue :
        HasMode(handler, zone_id) => ReplenishedBy(zone_id, ModeOfZone(handler, zone_id))
\* the item the zone plays has no length
PlaysUnknownLength(h, zone_id) ==
    /\ IsSome(h.zone_map[zone_id].now_playing)
    /\ IsNone(Unwrap(h.zone_map[zone_id].now_playing).length)
ReplenishedKnownLength ==
    \A zone_id \in ReplenishDue :
        (HasMode(handler, zone_id) /\ ~PlaysUnknownLength(handler, zone_id)) =>
            ReplenishedBy(zone_id, ModeOfZone(handler, zone_id))
UnknownLengthSkipped ==
    \A zone_id \in ReplenishDue :
        PlaysUnknownLength(handler, zone_id) =>
            /\ \A i \in 1..Len(sent') : sent'[i].op # "browse"
            /\ handler'.browse_paths = handler.browse_paths

\* C33 as stated: at every seek update of a live zone with 0 to 3 seconds left
\* in the queue, and at every play command for a selected zone that plays
\* nothing, a random mode of the primary output starts a scripted session and
\* Manual or RoonRadio starts none
C33_ReplenishedAlways == [][Replenished]_vars

\* C33: the same unless the zone plays an item without a length, for which no
\* session is started in any mode
C33_Replenished == [][ReplenishedKnownLength /\ UnknownLengthSkipped]_vars

\* a seek update started the album script of zone z1
C33_Witness ==
    /\ hlog.kind = "ZonesSeek"
    /\ sent = <<PopToRoot("z1")>>
    /\ "z1" \in DOMAIN handler.browse_paths
    /\ handler.browse_paths["z1"] = ModeScript("RandomAlbum")
    /\ ModesOf(handler) = MapInsert(EmptyMap, "o1", "RandomAlbum")

\* the Pause command for the zone
PauseOf(zone_id) == [op |-> "control", arg |-> [zone_id |-> zone_id, how |-> "Pause"]]
PauseIssued == \E i \in 1..Len(sent') : sent'[i].op = "control" /\ sent'[i].arg.how = "Pause"
Notified(active) ==
    \E i \in 1..Len(NewEvents) : NewEvents[i] = Msg("PauseOnTrackEndActive", active)
\* the handler takes the request to pause at the end of the track
PauseReqTaken ==
    /\ HandlerRuns /\ to_roon # <<>>
    /\ ChanRecv(to_roon).item.kind = "PauseOnTrackEndReq"
    /\ to_roon' = ChanRecv(to_roon).rest
    /\ hlog'.kind = "PauseOnTrackEndReq"
\* the selected zone plays a track of positive length
PlaysTrack(h) ==
    /\ SelectedLive(h)
    /\ SelectedZone(h).state = "Playing"
    /\ IsSome(SelectedZone(h).now_playing)
    /\ IsSome(Unwrap(SelectedZone(h).now_playing).length)
    /\ Unwrap(Unwrap(SelectedZone(h).now_playing).length) > 0
\* the flag is set only by a request made while a track plays
ActivatedOnRequest ==
    (~handler.pause_on_track_end /\ handler'.pause_on_track_end) =>
        PauseReqTaken /\ PlaysTrack(handler) /\ Notified(TRUE)
\* the seek update the handler takes is of the selected zone, at position 0
SeekAtStart ==
    /\ SeekTaken
    /\ IsSome(handler.settings.zone_id)
    /\ LET seeks == Unwrap(ChanRecv(core_rx).item.msg).arg IN
           /\ seeks[1].zone_id = Unwrap(handler.settings.zone_id)
           /\ seeks[1].seek_position = Some(0)
\* with the flag set, the first seek update at position 0 pauses the zone once,
\* clears the flag and tells the UI; other seek updates leave the flag
PausedAtTrackEnd ==
    (SeekTaken /\ handler.pause_on_track_end) =>
        IF SeekAtStart
        THEN /\ \E i \in 1..Len(sent') : sent'[i] = PauseOf(Unwrap(handler.settings.zone_id))
             /\ Cardinality({i \in 1..Len(sent') : sent'[i].op = "control"}) = 1
             /\ ~handler'.pause_on_track_end
             /\ Notified(FALSE)
        ELSE handler'.pause_on_track_end /\ ~PauseIssued
\* a Pause is issued only by the step that clears the flag
OnePausePerActivation ==
    ((HandlerTakesPush \/ HandlerTakesIntent) /\ PauseIssued) =>
        SeekAtStart /\ handler.pause_on_track_end /\ ~handler'.pause_on_track_end
\* the handler takes a zone-list push that reports the selected zone as not
\* playing
NotPlayingPushTaken ==
    /\ HandlerRuns /\ core_rx # <<>>
    /\ ItemKind(ChanRecv(core_rx).item) = "Zones"
    /\ core_rx' = ChanRecv(core_rx).rest
    /\ hlog'.kind = "Zones"
    /\ IsSome(handler'.settings.zone_id)
    /\ LET zones == Unwrap(ChanRecv(core_rx).item.msg).arg IN
           \E i \in 1..Len(zones) :
               /\ zones[i].zone_id = Unwrap(handler'.settings.zone_id)
               /\ zones[i].state # "Playing"
DeactivatedByPush ==
    (NotPlayingPushTaken /\ handler.pause_on_track_end) =>
        ~handler'.pause_on_track_end /\ Notified(FALSE)
DeactivatedByPushUnlessPending ==
    (NotPlayingPushTaken /\ handler.pause_on_track_end) =>
        IF IsNone(handler'.zone_output_ids)
        THEN ~handler'.pause_on_track_end /\ Notified(FALSE)
        ELSE handler'.pause_on_track_end /\ ~Notified(FALSE)

\* C39 as stated: the flag is set only by a request made while the selected
\* zone plays a track of positive length; with the flag set the first seek
\* update of the selected zone at position 0 issues one Pause, clears the flag
\* and notifies the UI; every zone-list push that reports the selected zone as
\* not playing clears the flag; a Pause is issued only where the flag is cleared
C39_PauseOnTrackEndAlways ==
    [][ActivatedOnRequest /\ PausedAtTrackEnd /\ OnePausePerActivation
         /\ DeactivatedByPush]_vars

\* C39: the same, where a zone-list push clears the flag when it leaves no
\* grouping target pending and leaves the flag set otherwise
C39_PauseOnTrackEnd ==
    [][ActivatedOnRequest /\ PausedAtTrackEnd /\ OnePausePerActivation
         /\ DeactivatedByPushUnlessPending]_vars

\* the seek update at position 0 paused the zone and cleared the flag
C39_Witness ==
    /\ hlog.kind = "ZonesSeek"
    /\ sent = <<PauseOf("z1")>>
    /\ ~handler.pause_on_track_end
    /\ \E i \in 1..Len(to_app) : to_app[i] = Msg("PauseOnTrackEndActive", FALSE)

(***************************************************************************)
(* Selecting an output of a group: the group is dissolved and the zone of  *)
(* the output is selected when it arrives.                                 *)
(***************************************************************************)
\* the user selects an output entry of the zone list: the list holds one for
\* each output of a zone of more than one output
SelectOutputIntent ==
    \E output_id \in {"o1", "o2"} :
        /\ \E z \in DOMAIN handler.zone_map :
               /\ Len(handler.zone_map[z].outputs) > 1
               /\ Contains(OutputIds(handler.zone_map[z]), output_id)
        /\ GroupingIntent(Msg("ZoneSelected", EndPoint("Output", output_id)))

InitOrphan == InitWith({[SettingsDefault EXCEPT !.zone_id = Some("z3")]}, FALSE)

NextOrphan ==
    \/ CoreFound
    \/ ServerZones
    \/ ServerZonesRemoved
    \/ SelectOutputIntent
    \/ HandlerOnFound
    \/ HandlerOnZones
    \/ HandlerOnZonesRemoved
    \/ HandlerOnZoneSelected
    \/ AppOnDisplay
    \/ AppOnZones
    \/ AppOnZoneChanged
    \/ AppOnZoneRemoved

SpecOrphan == InitOrphan /\ [][NextOrphan]_vars

\* the handler takes a zone-list push while an output waits for its zone
OrphanPushTaken ==
    /\ HandlerRuns /\ core_rx # <<>>
    /\ ItemKind(ChanRecv(core_rx).item) = "Zones"
    /\ core_rx' = ChanRecv(core_rx).rest
    /\ hlog'.kind = "Zones"
    /\ IsSome(handler.orphaned_output_id)
\* the zones of the push whose primary output is the one that waits
ZonesOfOrphan ==
    LET zones == Unwrap(ChanRecv(core_rx).item.msg).arg IN
    {zones[i].zone_id : i \in {j \in 1..Len(zones) :
                                  /\ Len(zones[j].outputs) > 0
                                  /\ zones[j].outputs[1].output_id =
                                        Unwrap(handler.orphaned_output_id)}}
OrphanSelected ==
    OrphanPushTaken =>
        IF ZonesOfOrphan # {}
        THEN /\ IsSome(handler'.settings.zone_id)
             /\ Unwrap(handler'.settings.zone_id) \in ZonesOfOrphan
             /\ IsNone(handler'.orphaned_output_id)
        ELSE /\ handler'.orphaned_output_id = handler.orphaned_output_id
             /\ IsSome(handler.settings.zone_id) => IsSome(handler'.settings.zone_id)

\* C35: after the user selected an output of a live zone, the zone whose
\* primary output it is becomes the selected zone at the first zone-list push
\* that holds such a zone; a push that holds none leaves the output waiting
\* and does not empty the selection
C35_OrphanSelected == [][OrphanSelected]_vars

\* a push without the zone of the output emptied the selection and dropped
\* the output that waited
C35_Witness ==
    /\ hlog.kind = "Zones"
    /\ IsSome(hlog.zone_id)
    /\ IsNone(handler.settings.zone_id)
    /\ IsNone(handler.orphaned_output_id)
    /\ disk.zone_id = None

\* the entry of the preset-match table for zone z is fresh: the zone is live,
\* the preset is saved and its output ids are those of the zone
MatchFresh(h, z) ==
    /\ z \in DOMAIN h.zone_map
    /\ MatchedToPreset(h, z)
    /\ LET ids == PresetsOf(h)[h.matched_zones[z]]
           out == OutputIds(h.zone_map[z])
       IN  {ids[i][1] : i \in 1..Len(ids)} = {out[i] : i \in 1..Len(out)}

\* C34: every entry of the preset-match table names a live zone and a saved
\* preset whose output ids are the current output ids of that zone
C34_MatchesFresh == \A z \in DOMAIN handler.matched_zones : MatchFresh(handler, z)

\* the preset of a matched zone was deleted and the entry stayed
C34_Witness ==
    /\ hlog.kind = "ZoneDeletePreset"
    /\ "z3" \in DOMAIN handler.matched_zones
    /\ handler.matched_zones["z3"] \notin DOMAIN PresetsOf(handler)

\* the handler takes an intent before the core was found
EarlyIntentTaken == HandlerRuns /\ HandlerTakesIntent /\ ~handler.browse
\* the intent is dropped: no request, no event, nothing saved, no change of the
\* handler state
IntentDropped ==
    EarlyIntentTaken =>
        /\ handler' = handler
        /\ sent' = <<>>
        /\ to_app' = to_app
        /\ disk' = disk
        /\ core_rx' = core_rx
        /\ panicked' = panicked
\* the step that takes core-found makes the two requests of the start and no
\* request of an intent dropped before
FoundTaken ==
    /\ HandlerRuns /\ HandlerTakesPush
    /\ ItemKind(ChanRecv(core_rx).item) = "Found"
    /\ ~handler.browse
NothingReplayed ==
    FoundTaken =>
        /\ sent' = <<[op |-> "browse",
                      arg |-> [BrowseOptsDefault EXCEPT
                                  !.pop_all = TRUE, !.multi_session_key = Some(TUI_BROWSE)]],
                     [op |-> "subscribe_zones", arg |-> None]>>
        /\ handler.opts = [BrowseOptsDefault EXCEPT !.multi_session_key = Some(TUI_BROWSE)]
        /\ handler' = [handler EXCEPT !.browse = TRUE, !.transport = TRUE,
                                      !.opts.pop_all = TRUE]
        /\ NewEvents = <<Msg("CoreName", Some("core"))>>

\* C38: an intent the handler takes before core-found is consumed without any
\* effect: no request, no event, no change of the handler state or of its
\* browse option fields, and the step that takes core-found afterwards does
\* what it does with no intent before it
C38_IntentDropped == [][IntentDropped /\ NothingReplayed]_vars

\* the handler took the request to pause at the end of the track before the
\* core was found, and the UI was sent no answer
C38_Witness ==
    /\ hlog.kind = "PauseOnTrackEndReq"
    /\ ~handler.browse
    /\ to_roon = <<>>
    /\ to_app = <<>>
    /\ sent = <<>>

(***************************************************************************)
(* Two scripted sessions of one zone: the profile script of a new zone and *)
(* the script of a random queue mode use the same session key.             *)
(***************************************************************************)
\* zone z1 selected with a profile and a random mode stored for its output
RunSettings ==
    {[SettingsDefault EXCEPT !.zone_id = Some("z1"), !.profile = Some(ProfileName),
                             !.queue_modes = Some(MapInsert(EmptyMap, "o1", mode))] :
        mode \in {"RandomAlbum", "RandomTrack"}}
\* the requests of the last handler step for the session of zone z1
RequestsOf(op) ==
    {i \in 1..Len(sent) : sent[i].op = op /\ sent[i].arg.multi_session_key = Some("z1")}
\* the root list of the browse hierarchy
RootItems == <<BrowseItem("Library", Some("k1")), BrowseItem("Settings", Some("k2"))>>
RootLoad == Msg("LoadResult", LoadResultOf(RootItems, 0, "Explore", 2, 0, "z1"))
\* the server answers the browse request of the last handler step with a list
ServerAnswerBrowse ==
    /\ RequestsOf("browse") # {}
    /\ \E title \in {"Explore", "Library", "Settings"} :
           ServerPush(Msg("BrowseResult",
               BrowseListResult([title |-> title, count |-> 2, level |-> 0,
                                 display_offset |-> None], "z1")))
\* the server answers the load request of the last handler step
ServerAnswerLoad ==
    /\ RequestsOf("load") # {}
    /\ ServerPush(RootLoad)
\* the queue of zone z1 is about to end
ServerSeekEnd ==
    /\ server = "paired"
    /\ ServerPush(Msg("ZonesSeek", <<[zone_id |-> "z1", queue_time_remaining |-> 0,
                                      seek_position |-> None]>>))
\* the server answers the load request after a seek update that the handler
\* has not taken yet
ServerAnswerLoadLate ==
    /\ server = "paired"
    /\ Len(core_rx) = 1 /\ ItemKind(core_rx[1]) = "ZonesSeek"
    /\ to_app = <<>> /\ to_roon = <<>>
    /\ RequestsOf("load") # {}
    /\ core_rx' = Append(core_rx, CoreItem("None", Some(RootLoad)))
    /\ UNCHANGED <<app, handler, to_app, to_roon, sent, disk, panicked, server, flow,
                   hlog, qlog, script_log, sup, hold>>

InitRun == InitWith(RunSettings, FALSE)

NextRun ==
    \/ CoreFound
    \/ ServerZoneOne
    \/ ServerAnswerBrowse
    \/ ServerAnswerLoad
    \/ ServerSeekEnd
    \/ ServerAnswerLoadLate
    \/ HandlerOnFound
    \/ HandlerOnZones
    \/ HandlerOnZonesSeek
    \/ HandlerOnBrowseResult
    \/ HandlerOnLoadResult
    \/ AppOnDisplay
    \/ AppOnZones
    \/ AppOnZoneChanged

SpecRun == InitRun /\ [][NextRun]_vars

\* the last handler step started a script for zone z1 and made only the
\* pop-to-root request of the new run
RunStarted ==
    /\ hlog.kind = "ZonesSeek"
    /\ sent = <<PopToRoot("z1")>>
    /\ "z1" \in DOMAIN handler.browse_paths
\* the handler takes a Load response of the session of zone z1
RunLoadTaken ==
    /\ HandlerRuns /\ HandlerTakesPush
    /\ ItemKind(ChanRecv(core_rx).item) = "LoadResult"
    /\ LoadTaken.key = Some("z1")
\* a Load response taken before the new run made a load request answers a
\* request of the run before and leaves the script of the new run alone
OwnStepsOnly ==
    (RunStarted /\ RunLoadTaken) =>
        /\ handler'.browse_paths = handler.browse_paths
        /\ sent' = <<>>

\* C36: a step of a script is consumed only by a Load response that answers a
\* request of the same run: a response to a request made before the script
\* was started anew consumes no step of the new script
C36_OwnStepsOnly == [][OwnStepsOnly]_vars

\* the script of the queue mode was started while the answer to the load
\* request of the profile script is on its way
C36_Witness ==
    /\ RunStarted
    /\ core_rx = <<CoreItem("None", Some(RootLoad))>>
    /\ Len(handler.browse_paths["z1"]) > 3

(***************************************************************************)
(* The text of the prompt and its cursor.                                  *)
(***************************************************************************)
\* the top level as the server lists it: the search item asks for a text
PromptItems ==
    <<[title |-> "Search", item_key |-> Some("k1"), input_prompt |-> Some("Search")],
      BrowseItem("Settings", Some("k2"))>>
ServerPromptLoad ==
    /\ server = "paired"
    /\ ServerPush(Msg("LoadResult", LoadResultOf(PromptItems, 0, "Explore", 2, 0, TUI_BROWSE)))
CursorKeys == CharKeys \cup {"Enter", "Esc", "Tab", "BackTab", "Left", "Right", "Home",
                             "End", "Backspace", "Delete", "Down"}
CursorKeyPress == \E key \in CursorKeys : KeyPress(key)
HandlerOnBrowseInput == HandlerOnIntent("BrowseInput")

InitCursor == InitWith({SettingsDefault}, FALSE)

NextCursor ==
    \/ CoreFound
    \/ ServerHomeList
    \/ ServerPromptLoad
    \/ CursorKeyPress
    \/ HandlerOnFound
    \/ HandlerOnBrowseResult
    \/ HandlerOnLoadResult
    \/ HandlerOnBrowseInput
    \/ HandlerOnBrowseSelected
    \/ HandlerOnBrowseBack
    \/ AppOnDisplay
    \/ AppOnInput
    \/ AppOnBrowseTitle
    \/ AppOnBrowseList

SpecCursor == InitCursor /\ [][NextCursor]_vars

\* C40: in every state of the UI the cursor position is between 0 and the
\* length of the input text
C40_CursorInText == app.cursor_position \in 0..Len(app.input)

\* a key typed in the prompt after Tab had emptied the text: the insert
\* beyond the end of the text ends the UI task
C40_Witness ==
    /\ "app" \in panicked
    /\ app.selected_view = Some("Prompt")
    /\ app.cursor_position > Len(app.input)
====
